----------------------------- MODULE MCSession ------------------------------
(***************************************************************************)
(* Session for TLC.  Two different texts are saved, one of them U+FFFD     *)
(* itself; a text and a binary attachment are appended to; a result of two *)
(* texts is large.                                                         *)
(***************************************************************************)
EXTENDS Session, TLC

CONSTANTS x, y, b

MCCalls == {[do |-> "save", body |-> <<x>>], [do |-> "save", body |-> <<y>>],
            [do |-> "append", id |-> <<x>>, text |-> y],
            [do |-> "fetch", body |-> <<x>>], [do |-> "fetch", body |-> <<x, y>>],
            [do |-> "download", body |-> <<b>>], [do |-> "append", id |-> <<b>>, text |-> x],
            [do |-> "list", limit |-> 1], [do |-> "search", label |-> "fetch"]}

Symmetry == Permutations(Steps)
=============================================================================
