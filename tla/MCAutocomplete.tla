--------------------------- MODULE MCAutocomplete ---------------------------
(***************************************************************************)
(* A small registry for Autocomplete: the seed `o` finds three rows, one   *)
(* more than are shown, and a longer query or a full ref finds one.        *)
(***************************************************************************)
EXTENDS Autocomplete, TLC

CONSTANTS empty, o, ox, oa, ob

MCText == {empty, o, ox, oa, ob}
MCResults ==
    (empty :> <<>>) @@ (o :> <<oa, ob, ox>>) @@ (ox :> <<ox>>) @@
    (oa :> <<oa>>) @@ (ob :> <<ob>>)

=============================================================================
