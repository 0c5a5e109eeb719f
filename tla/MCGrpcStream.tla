---------------------------- MODULE MCGrpcStream ----------------------------
(***************************************************************************)
(* Requests for model checking GrpcStream: each branch of the handler, and *)
(* the values at the edges of repeat.                                      *)
(***************************************************************************)
EXTENDS GrpcStream

With(acts) == [NoCommands EXCEPT !.actions = acts]
Repeat(from) == [range |-> FALSE, from |-> from, to |-> 0]
RepeatRange(from, to) == [range |-> TRUE, from |-> from, to |-> to]

Plain == NoCommands
Noop == With({"noop"})
Code == [With({"code"}) EXCEPT !.code = 5]
CodeOk == [With({"code", "disconnect"}) EXCEPT !.code = 0]
Disconnect == With({"disconnect"})
Twice == [With({"repeat"}) EXCEPT !.repeat = Repeat(2)]
CodeTwice == [With({"repeat", "code"}) EXCEPT !.code = 5, !.repeat = Repeat(2)]
DisconnectTwice == [With({"repeat", "disconnect"}) EXCEPT !.repeat = Repeat(2)]
Between == [With({"repeat"}) EXCEPT !.repeat = RepeatRange(3, 1)]
FromZero == [With({"repeat"}) EXCEPT !.repeat = RepeatRange(0, 2)]
Never == [With({"repeat"}) EXCEPT !.repeat = Repeat(0)]
Unmatched == [With({"code", "repeat"}) EXCEPT !.code = 5,
                 !.repeat = Repeat(2), !.ifUnmatches = TRUE]

MCRequests ==
    {Plain, Noop, Code, CodeOk, Disconnect, Twice, CodeTwice, DisconnectTwice,
     Between, FromZero, Never, Unmatched}

MCCodeRequests == {Plain, Code}
=============================================================================
