------------------------------ MODULE Commands ------------------------------
(***************************************************************************)
(* The commands a request carries (types.go, Commands) and what the gRPC   *)
(* server makes of them (grpc.go, validateCommandsForGrpc).                *)
(*                                                                         *)
(* The parameters whose only effect is outside a stream (sleep, size, cpu, *)
(* memory, headers, trailers, stdout, stderr, dataonly) are one action,    *)
(* "other": they decide whether the request has an action at all.          *)
(***************************************************************************)
EXTENDS Naturals

ActionNames == {"noop", "code", "disconnect", "repeat", "other"}

\* The value of repeat: "from" alone, or the range "from-to".
RepeatValue == [range : BOOLEAN, from : Nat, to : Nat]

(***************************************************************************)
(* Commands after validateCommands: the parameters that matched their      *)
(* regular expression (actions), whether some parameter did not            *)
(* (invalids), and whether some if-condition does not hold (ifUnmatches).  *)
(***************************************************************************)
CommandsType ==
    [actions     : SUBSET ActionNames,
     code        : Nat,
     repeat      : RepeatValue,
     invalids    : BOOLEAN,
     ifUnmatches : BOOLEAN]

NoCommands ==
    [actions     |-> {},
     code        |-> 0,
     repeat      |-> [range |-> FALSE, from |-> 0, to |-> 0],
     invalids    |-> FALSE,
     ifUnmatches |-> FALSE]

needsAction(cmds) ==
    /\ cmds.actions # {}
    /\ ~cmds.ifUnmatches
    /\ ~cmds.invalids

lower(v) == IF v.from > v.to THEN v.to ELSE v.from

upper(v) == IF v.from > v.to THEN v.from ELSE v.to

\* The numbers getActionValue("repeat") can return for the value v.
getActionValue(v) == IF v.range THEN lower(v) .. upper(v) ELSE {v.from}

\* A repeat that validateCommandsForGrpc moves to the invalids.
isRepeatInvalid(mode, cmds) ==
    /\ "repeat" \in cmds.actions
    /\ \/ mode \in {"Unary", "ClientStream"}
       \/ cmds.repeat.range /\ lower(cmds.repeat) = 0

validateCommandsForGrpc(mode, cmds) ==
    IF isRepeatInvalid(mode, cmds)
    THEN [cmds EXCEPT !.actions = @ \ {"repeat"}, !.invalids = TRUE]
    ELSE cmds
=============================================================================
