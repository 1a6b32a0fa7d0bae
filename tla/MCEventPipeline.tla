-------------------------- MODULE MCEventPipeline --------------------------
(***************************************************************************)
(* A small instance of EventPipeline: one transaction of each kind that    *)
(* transaction_update_matcher and parse_logs tell apart.                   *)
(***************************************************************************)
EXTENDS EventPipeline

Ok(items) == [envelope |-> "ok", items |-> items]

MCKinds == {
  Ok(<<"event">>),
  Ok(<<"foreign">>),                      \* an empty batch
  Ok(<<"event", "foreign", "event">>),
  Ok(<<"event", "garbled", "event">>),    \* a partial batch
  Ok(<<"event", "short">>),               \* kills the listener
  [envelope |-> "inverted", items |-> <<"event">>],
  [envelope |-> "rejected", items |-> <<>>],
  [envelope |-> "absent", items |-> <<>>]}
=============================================================================
