--------------------------- MODULE KVStateMachine ---------------------------
(***************************************************************************)
(* The replicated state machine of deterministic_raft/kv.py: a key-value   *)
(* store and, per client, the last request it applied with its answer.     *)
(* Requests count from 1, so session 0 means "no session yet".  Log entries *)
(* that decode to no command (a leader's no-op, a configuration) have no    *)
(* effect on it and are left out.                                          *)
(***************************************************************************)
EXTENDS Naturals, Sequences, SequencesExt

CONSTANTS
    Keys,
    Values,
    Absent,             \* what a key that was never written reads as: ""
    Clients

ASSUME KVAssumption == Absent \notin Values

Stored == Values \cup {Absent}
Results == Stored \cup {"ok", "fail"}

Operations ==
    [op : {"put"}, key : Keys, value : Values, expected : {Absent}]
    \cup
    [op : {"get"}, key : Keys, value : {Absent}, expected : {Absent}]
    \cup
    [op : {"cas"}, key : Keys, value : Values, expected : Stored]

Requests == [client : Clients, req : Nat \ {0}, o : Operations]

Stores == [Keys -> Stored]
Images == [store : Stores, sessions : [Clients -> [req : Nat, result : Results]]]

EmptyStore == [k \in Keys |-> Absent]
EmptyImage ==
    [store |-> EmptyStore,
     sessions |-> [c \in Clients |-> [req |-> 0, result |-> Absent]]]

-----------------------------------------------------------------------------
\* The operation o changes the store: a put, or a cas that finds what it expects.
Takes(store, o) ==
    \/ o.op = "put"
    \/ o.op = "cas" /\ store[o.key] = o.expected

\* _execute.
Execute(store, o) ==
    [store  |-> IF Takes(store, o) THEN [store EXCEPT ![o.key] = o.value]
                ELSE store,
     result |-> IF o.op = "get" THEN store[o.key]
                ELSE IF Takes(store, o) THEN "ok" ELSE "fail"]

\* is_duplicate: this request, or a later one, of the client was applied.
Duplicate(image, cmd) == cmd.req <= image.sessions[cmd.client].req

\* apply: a duplicate is answered from the session.
Apply(image, cmd) ==
    LET done == Execute(image.store, cmd.o)
    IN IF Duplicate(image, cmd)
       THEN [image |-> image, result |-> image.sessions[cmd.client].result]
       ELSE [image |-> [store |-> done.store,
                        sessions |-> [image.sessions EXCEPT ![cmd.client] =
                                        [req |-> cmd.req, result |-> done.result]]],
             result |-> done.result]

\* DEFECT: the session table is left out of a snapshot.
RestoreStoreOnly(captured) ==
    [store |-> captured.store, sessions |-> EmptyImage.sessions]

\* restore of what capture saved: store and sessions.
Restore(captured) == captured
=============================================================================
