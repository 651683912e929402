--------------------------- MODULE MCTelegramBot ---------------------------
(* Small instances of TelegramBot. *)
EXTENDS TelegramBot

CONSTANTS ann, bob, i1, i2, c1, c2

Nobody == [users |-> {}, conns |-> {}, on |-> TRUE]

AnnIn == [users |-> {[id |-> i1, chat |-> ann]},
          conns |-> {[id |-> c1, user |-> i1]}, on |-> TRUE]

Of(d, chats, press, n, faults, k) ==
    [doc |-> d, chats |-> chats, press |-> press, sends |-> n,
     faults |-> faults, switches |-> k]

AllScenes ==
    {Of(Nobody, {ann}, {"register"}, 2, {}, 2),
     Of(Nobody, {ann}, {"link"}, 2, {"restart"}, 2),
     Of(Nobody, {ann, bob}, {"link"}, 2, {}, 1),
     Of(Nobody, {ann}, {"start", "text", "look"}, 3, {"restart", "code"}, 0),
     Of(AnnIn, {ann}, {"auto", "delok"}, 2, {"server"}, 2),
     Of(AnnIn, {ann}, {"auto", "delok"}, 3, {"restart"}, 0),
     Of(AnnIn, {ann}, {"cfg", "delok", "status"}, 2, {"server"}, 1),
     Of(AnnIn, {ann, bob}, {"proto", "text", "newcode"}, 3, {"raise", "lost"}, 0),
     Of(AnnIn, {ann}, {"auto"}, 2, {"login", "raise"}, 2)}
=============================================================================
