--------------------------- MODULE MCStepHandlers ---------------------------
(* Pipelines in order and out of order, with retries, with two ingestions or *)
(* two transformations, with a null config and with a negative max_retries.  *)
EXTENDS StepHandlers, TLC

Ordered == [columns |-> {"id", "price"}, rows |-> <<"id" :> 1 @@ "price" :> 5, "id" :> 3 @@ "price" :> Null>>]
NoPrice == [columns |-> {"id"}, rows |-> <<"id" :> 2>>]
Empty   == [columns |-> {}, rows |-> <<>>]
MCSources == {Ordered, NoPrice, Empty}

Then(type, config, retries, strategy, delay) ==
    [step_type |-> type, config |-> config, max_retries |-> retries, strategy |-> strategy, base_delay |-> delay]
Where(c, op, v) == [column |-> c, operator |-> op, value |-> v]
Config == [source_url |-> "url", required_columns |-> {"id", "price"}, non_null_columns |-> {"id"}, min_rows |-> 1,
           rename_columns |-> <<>>, filter_rows |-> <<>>, drop_columns |-> {}]
ToTransform(rename, filters, drop) ==
    [Config EXCEPT !.rename_columns = rename, !.filter_rows = filters, !.drop_columns = drop]

Ingest   == Then("ingestion", Config, 0, None, 0)
Patient  == Then("ingestion", Config, 2, "exponential_backoff_jitter", 2)
Validate == Then("validation", Config, 0, None, 0)
Rename1  == Then("transformation", ToTransform("id" :> "key", <<Where("key", "<=", 3), Where("price", "!=", 5)>>, {"price"}), 1, None, 1)
Bad      == Then("transformation", ToTransform("id" :> "key", <<Where("id", ">", 1)>>, {}), 1, "exponential_backoff", 1)
Plain    == Then("transformation", Config, 0, None, 0)
Load     == Then("load", None, 1, None, 0)
Without(step) == [step EXCEPT !.config = None]
Negative(step) == [step EXCEPT !.max_retries = -1]

MCPlans == {
    <<Patient, Validate, Rename1, Load>>,
    <<Ingest, Validate, Ingest, Plain, Load>>,
    <<Ingest, Validate, Rename1, Plain, Load>>,
    <<Ingest, Rename1, Validate, Load>>,
    <<Ingest, Negative(Validate), Plain, Load>>,
    <<Ingest, Validate, Bad, Negative(Load)>>,
    <<Ingest, Without(Validate), Load>>,
    <<Ingest, Validate, Plain, Negative(Load)>>,
    <<Ingest, Validate, Plain, Load, Rename1>>}

Symmetry == Permutations(Runs)
=============================================================================
