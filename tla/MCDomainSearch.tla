--------------------------- MODULE MCDomainSearch ---------------------------
(***************************************************************************)
(* An instance of DomainSearch: two spellings of one name, another name    *)
(* and one without a dot.                                                  *)
(***************************************************************************)
EXTENDS DomainSearch

CONSTANTS ex, other, word

MCTexts == {"ex", "EX", "other", "word"}
MCNames == {ex, other, word}
MCNormalise == [t \in MCTexts |-> CASE t \in {"ex", "EX"} -> ex
                                    [] t = "other" -> other
                                    [] t = "word" -> word]
MCDotted == {ex, other}
=============================================================================
