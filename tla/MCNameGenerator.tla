--------------------------- MODULE MCNameGenerator ---------------------------
(***************************************************************************)
(* Names of up to 6 characters of "a", "Z", "-" and "." against a label    *)
(* limit of 5 with a 3-character suffix ("-" and 2 hex digits of a        *)
(* 4-digit hash), i.e. the code's 63, 9 and 8-of-16 scaled down.          *)
(***************************************************************************)
EXTENDS NameGenerator

MCAlphabet == {"a", "Z", "-", "."}
MCUpper    == [c \in {"Z"} |-> "z"]
MCPrefixes == {<<>>, <<"a", "-">>}
\* Hashes with all 4 hex digits, with 2, and with 1.
FullHashes   == {43981, 4660}
MCHashValues == {43981, 171, 7}

=============================================================================
