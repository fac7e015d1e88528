----------------------------- MODULE Artifacts ------------------------------
(***************************************************************************)
(* The artifact store (internal/artifacts): a directory of files that are  *)
(* written in place and without the lock, and an index in memory from the  *)
(* SHA-256 of a content to the file it was last written to.                *)
(*                                                                         *)
(* A content is the sequence of the pieces it was put together from, and   *)
(* is its own hash.  Some pieces are not UTF-8: an attachment or a log is  *)
(* stored as it comes.  A file name is the tool and its primary argument   *)
(* (the label), the second, and the hash.                                  *)
(***************************************************************************)
EXTENDS Integers, Sequences, FiniteSets, Functions

CONSTANTS
    Texts,          \* the pieces a tool call saves, appends or fetches
    Binary,         \* those that are not UTF-8
    Replaced,       \* U+FFFD, what stands for such a piece in JSON
    MaxLen,         \* bound on the texts of a content
    MaxSecond,      \* bound on the clock
    InlineMax       \* Config.InlineMaxBytes, in texts

ASSUME ArtifactsAssumption ==
    /\ IsFiniteSet(Texts) /\ Binary \subseteq Texts /\ Replaced \in Texts \ Binary
    /\ MaxLen \in Nat \ {0} /\ MaxSecond \in Nat /\ InlineMax \in Nat

VARIABLES
    keepIndex,      \* Config.KeepIndex
    files,          \* the directory: file name -> what the file holds
    byID,           \* Store.byID, each item by its file name
    recent,         \* Store.orderedRecent
    hurt            \* history: the files whose last write failed or was cut off

storeVars == <<keepIndex, files, byID, recent, hurt>>

Labels   == {"artifact_save_text", "artifact_append_text", "fetch", "download"}
Contents == UNION {[1..n -> Texts] : n \in 1..MaxLen}
Textual  == UNION {[1..n -> Texts \ Binary] : n \in 1..MaxLen}
Names    == [label : Labels, second : 0..MaxSecond, sum : Contents]
Item     == [id : Contents, path : Names]

\* New, by a process that finds the files an earlier one has written.
Empty ==
    /\ byID' = <<>> /\ recent' = <<>>
    /\ keepIndex' \in BOOLEAN

\* Mutant of Filename: the hash is left out.
FilenameOfCall(label, second, body) ==
    [label |-> label, second |-> second, sum |-> CHOOSE c \in Contents : TRUE]

Filename(label, second, body) == [label |-> label, second |-> second, sum |-> body]

\* What is kept inline never reaches the directory.
Large(body) == InlineMax > 0 /\ Len(body) > InlineMax

-----------------------------------------------------------------------------
(* StoreBytes and MaybeStore: os.WriteFile opens the file with O_TRUNC, or  *)
(* fails to, and writes it; only then is the index changed, under the lock. *)

OpenFails == UNCHANGED storeVars

Truncate(path) ==
    /\ files' = [p \in DOMAIN files \cup {path} |-> IF p = path THEN <<>> ELSE files[p]]
    /\ UNCHANGED <<keepIndex, byID, recent, hurt>>

WriteEnds(path, body) ==
    /\ files' = [files EXCEPT ![path] = body]
    /\ hurt' = hurt \ {path}
    /\ UNCHANGED <<keepIndex, byID, recent>>

\* What was written before the error stays.
WriteFails(path, body) ==
    /\ \E n \in 0..(Len(body) - 1) : files' = [files EXCEPT ![path] = SubSeq(body, 1, n)]
    /\ hurt' = hurt \cup {path}
    /\ UNCHANGED <<keepIndex, byID, recent>>

\* Mutant of Index: the order of the ids is forgotten.
IndexUnlisted(path, body) ==
    /\ IF keepIndex
       THEN byID' = [i \in DOMAIN byID \cup {body} |-> IF i = body THEN path ELSE byID[i]]
       ELSE UNCHANGED byID
    /\ UNCHANGED <<keepIndex, files, recent, hurt>>

\* The newest file of a content replaces the one before; recent has it once more.
Index(path, body) ==
    /\ IF keepIndex
       THEN /\ byID' = [i \in DOMAIN byID \cup {body} |-> IF i = body THEN path ELSE byID[i]]
            /\ recent' = Append(recent, body)
       ELSE UNCHANGED <<byID, recent>>
    /\ UNCHANGED <<keepIndex, files, hurt>>

-----------------------------------------------------------------------------
(* List and Get, under the lock.  Read looks an id up under the lock and    *)
(* reads the file without it.                                              *)

ItemOf(i) == [id |-> i, path |-> byID[i]]
List      == [k \in DOMAIN recent |-> ItemOf(recent[k])]
Get(i)    == IF i \in DOMAIN byID THEN {byID[i]} ELSE {}

\* artifact_list: the first ones, up to a limit (0: all).
Listed(limit) == {List[k] : k \in {j \in DOMAIN List : limit = 0 \/ j <= limit}}

\* artifact_search with a query that a label answers, and its default limit.
MaxFound == 20
Hits(label)  == {k \in DOMAIN List : List[k].path.label = label}
Found(label) ==
    {List[k] : k \in {h \in Hits(label) : Cardinality({j \in Hits(label) : j <= h}) <= MaxFound}}

\* string(b) in the JSON of a response: what is not UTF-8 is replaced.
TextOf(body) == [k \in DOMAIN body |-> IF body[k] \in Binary THEN Replaced ELSE body[k]]

\* artifact_append_text: a content of its own, which begins with the old one.
Appended(body, text) == Append(body, text)
=============================================================================
