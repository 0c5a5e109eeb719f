------------------------------ MODULE MCServer ------------------------------
(***************************************************************************)
(* Requests for model checking Server: each handler, each kind of          *)
(* parameter valid, invalid and given twice, conditions that hold and that *)
(* do not, sizes about the length of the document and of a line.           *)
(***************************************************************************)
EXTENDS Server

\* Values of parameters.
Bad == [ok |-> FALSE]
Num(n) == [ok |-> TRUE, range |-> FALSE, from |-> n, to |-> 0]
Between(m, n) == [ok |-> TRUE, range |-> TRUE, from |-> m, to |-> n]
Is(values) == [ok |-> TRUE, covers |-> values]
Header(letters, capitals, text) ==
    [ok |-> TRUE, name |-> [letters |-> letters, capitals |-> capitals], text |-> text]

\* A GET of / from client a, over HTTP/1.
Get(q) ==
    [kind |-> "default", srv |-> "http", h2c |-> FALSE, ip |-> "a", local |-> "me",
     xff |-> <<>>, body |-> 0, q |-> q, page |-> [status |-> 200, size |-> 0],
     codes |-> <<>>]

PageOf(kind, status, n) ==
    [Get(NoQuery) EXCEPT !.kind = kind, !.page = [status |-> status, size |-> n]]

Unary(q) == [Get(q) EXCEPT !.kind = "unary", !.srv = "grpc"]

MCHost ==
    [ifhost |-> "me", ifhostip |-> "me", ifaz |-> "az1", iftype |-> "t1"]

MCOffers ==
    [plain     |-> Get(NoQuery),
     post      |-> [Get([size |-> <<Between(6, 4)>>, status |-> <<Num(204)>>,
                         stdout |-> <<Num(0), Num(1)>>])
                       EXCEPT !.body = 2],
     lines     |-> Get([size |-> <<Num(106)>>, chunk |-> <<Num(0)>>,
                        addtrailer |-> <<Header("x", FALSE, 6)>>]),
     twice     |-> Get([size |-> <<Num(5), Num(6)>>, cpu |-> <<Num(20)>>]),
     huge      |-> [Get([sleep |-> <<Between(1000, 0)>>,
                         addheader |-> <<Header("x", FALSE, 7)>>])
                       EXCEPT !.ip = "b"],
     xff       |-> [Get([status |-> <<Num(103)>>, size |-> <<Num(0)>>,
                         ifclientip |-> <<Is({"d"}), Is({"c"})>>,
                         iflasthopip |-> <<Is({"b"})>>])
                       EXCEPT !.ip = "b", !.xff = <<"c">>],
     add       |-> Get([addheader |-> <<Header("x", TRUE, 1), Header("x", TRUE, 2)>>]),
     del       |-> Get([delheader |-> <<Header("x", TRUE, 0)>>, cpu |-> <<Num(20)>>]),
     elsewhere |-> Get([addheader |-> <<Header("x", FALSE, 3)>>, memory |-> <<Num(30)>>,
                        ifhost |-> <<Is({"other"})>>]),
     mixed     |-> Get([size |-> <<Num(7)>>, ifhost |-> <<Is({"me"}), Bad>>]),
     bye       |-> Get([disconnect |-> <<Num(0)>>]),
     h2c       |-> [Get(NoQuery) EXCEPT !.h2c = TRUE],
     h2cfile   |-> [PageOf("files", 404, 0) EXCEPT !.h2c = TRUE],
     env       |-> [PageOf("env", 200, 7)
                       EXCEPT !.q = [delheader |-> <<Header("x", FALSE, 0)>>]],
     exec      |-> PageOf("exec", 200, 8),
     monitor   |-> [Get(NoQuery) EXCEPT !.kind = "monitor"],
     stop      |-> [Get(NoQuery) EXCEPT !.kind = "stop"],
     graceful  |-> [Get([graceful |-> <<Num(0)>>]) EXCEPT !.kind = "stop"],
     rpc       |-> Unary([addheader |-> <<Header("x", FALSE, 4)>>,
                          addtrailer |-> <<Header("x", TRUE, 5)>>, size |-> <<Num(1)>>]),
     rpccode   |-> Unary([deltrailer |-> <<Header("x", FALSE, 0)>>, code |-> <<Num(5)>>]),
     rpcbye    |-> Unary([code |-> <<Num(0)>>, disconnect |-> <<Num(0)>>]),
     rpcnoop   |-> Unary([delheader |-> <<Header("x", FALSE, 0)>>, noop |-> <<Num(0)>>]),
     rpcrepeat |-> Unary([repeat |-> <<Num(2)>>, size |-> <<Num(1)>>]),
     rpchuge   |-> Unary([size |-> <<Between(0, 1000)>>]),
     method    |-> [Unary(NoQuery) EXCEPT !.kind = "unregistered", !.codes = <<3, 99>>]]

\* The offers that meet the others in shared state.
Meeting ==
    {"plain", "xff", "huge", "add", "del", "h2c", "h2cfile", "monitor", "graceful", "rpc"}

(***************************************************************************)
(* Two requests, one of which meets others, and three where it takes       *)
(* three: a header added, deleted and looked for, and two stop requests.   *)
(***************************************************************************)
MCArrivals ==
    LET All == DOMAIN MCOffers
    IN  {<<o>> : o \in All} \union (All \X Meeting) \union (Meeting \X All)
          \union {<<"add", "del", "plain">>, <<"del", "add", "plain">>,
                  <<"add", "elsewhere", "plain">>, <<"add", "env", "plain">>,
                  <<"rpc", "rpccode", "rpcrepeat">>, <<"rpc", "rpcnoop", "rpcrepeat">>}
          \union ({"graceful"} \X {"graceful"} \X {"plain", "rpc"})

-----------------------------------------------------------------------------
(***************************************************************************)
(* Two requests of an h2c connection: one with a body, a size and an       *)
(* invalid status, the other with a status that has no body.               *)
(***************************************************************************)
H2cOffers ==
    [post  |-> [Get([size |-> <<Num(7)>>, status |-> <<Bad>>])
                   EXCEPT !.h2c = TRUE, !.body = 2],
     empty |-> [Get([size |-> <<Num(5)>>, status |-> <<Num(204)>>])
                   EXCEPT !.h2c = TRUE]]

H2cArrivals == {<<"post">>, <<"post", "empty">>}
=============================================================================
