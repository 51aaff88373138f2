--------------------------- MODULE MCSdbRegistry ---------------------------
(* A library with three drivers compiled in and room for three more, and   *)
(* an application with four of its own: one takes the name of a builtin,   *)
(* and two share a name.                                                   *)
EXTENDS SdbRegistry, TLC

CONSTANTS sdbd, sqlite, text, mytext, mine, other, hers

MCBuiltin == <<sdbd, sqlite, text>>
MCNameOf == (sdbd :> "sdbd") @@ (sqlite :> "sqlite") @@ (text :> "text")
              @@ (mytext :> "text") @@ (mine :> "mine") @@ (other :> "mine")
              @@ (hers :> "hers")
MCNames == {"sdbd", "sqlite", "text", "mine", "hers", "nosuch"}
=============================================================================
