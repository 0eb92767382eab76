------------------------------ MODULE MCTokens ------------------------------
(* A small instance of Tokens. *)
EXTENDS Tokens, TLC

Point(c, i) == [chain |-> c, pos |-> i]
NoFile == [null |-> TRUE, clen |-> 0, chal |-> Point("blank", 0),
           rd |-> -1, failcount |-> 0, authtime |-> 0]
Fresh == [NoFile EXCEPT !.null = FALSE, !.clen = 8, !.chal = Point("file", 0)]
Starting == [c \in Tokens |-> IF c \in {"cryptocard-rs", "c200"} THEN {Fresh} ELSE {NoFile}]

Answer(c) == [chal |-> c, pass |-> Point(c, 0)]
Clock(i) == [chal |-> NoChal, pass |-> Point("clock", i)]
Short == [chal |-> NoChal, pass |-> Point("short", 0)]
Attempts ==
  [c \in Tokens |->
     CASE c = "cryptocard-rs" -> {Answer("a1"), Short}
       [] c = "x99"           -> {Answer("a1")}
       [] c = "totp"          -> {Clock(0), Clock(1)}
       [] c = "c200"          -> {Clock(1)}]
Chals == [c \in Tokens |-> IF c \in {"cryptocard-rs", "x99"} THEN {"a1"} ELSE {}]
=============================================================================
