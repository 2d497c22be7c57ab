----------------------------- MODULE Namespacing -----------------------------
(***************************************************************************)
(* The namespacing of storage ids (antlir/rpm/storage/storage.py): a       *)
(* Storage marks every id it issues with its key (_add_key, called by the  *)
(* commit callback) and accepts user-provided ids only with its own key    *)
(* (strip_key, called by the implementations' reader and remove).  Several *)
(* Storage configurations issue ids and the ids are read back through any  *)
(* of them.                                                                *)
(*                                                                         *)
(* A string is a tuple of one-character strings over a small alphabet:     *)
(* letters of the key alphabet, ":" and the newline.  A backend's raw id  *)
(* is any such string, ":" included.                                       *)
(***************************************************************************)
EXTENDS Naturals, Sequences, FiniteSets

CONSTANTS
    Storages,       \* Storage configurations
    KeyCandidates,  \* the key= values a configuration may be given
    RawIds          \* ids the backends may return from finalize

(* The characters of the model's strings.                                 *)
Chars == {"a", "b", ":", "\n"}

ASSUME NamespacingAssumption ==
    /\ KeyCandidates \subseteq Seq(Chars)
    /\ RawIds \subseteq Seq(Chars)

VARIABLES
    key,        \* storage -> its key
    issued,     \* the ids handed to callers: [by, raw, id]
    lastRead    \* the last strip_key call: [at, item, result]

vars == <<key, issued, lastRead>>

(* The key alphabet of the Storage docstring ("-, _, alphanumerics"), as  *)
(* far as the model's strings use it.                                      *)
KeyChars == {"a", "b"}

NoResult == [err |-> "none", sid |-> << >>]

NoRead == [at |-> "none", item |-> [by |-> "none", raw |-> << >>, id |-> << >>],
          result |-> NoResult]

(* Variant of KeyMatches whose pattern accepts any character.              *)
KeyMatchesAnyChar(k) == Len(k) >= 1

(* _KEY_REGEX.match(key) for "[-_a-zA-Z0-9]+$": one or more key           *)
(* characters at the start, then the end of the string or a newline that  *)
(* ends it (Python's "$").                                                  *)
KeyMatches(k) ==
    \/ Len(k) >= 1 /\ \A i \in 1..Len(k) : k[i] \in KeyChars
    \/ /\ Len(k) >= 2 /\ k[Len(k)] = "\n"
       /\ \A i \in 1..Len(k) - 1 : k[i] \in KeyChars

(* f"{self.key}:{sid}"                                                      *)
AddKey(k, sid) == k \o <<":">> \o sid

Colons(s) == {i \in 1..Len(s) : s[i] = ":"}

(* Variant of StripKey that splits at the last ":" (rsplit).                *)
StripKeyLastColon(k, s) ==
    IF Colons(s) = {} THEN [err |-> "ValueError", sid |-> << >>]
    ELSE LET i == CHOOSE c \in Colons(s) : \A d \in Colons(s) : c >= d IN
         IF SubSeq(s, 1, i - 1) # k
         THEN [err |-> "AssertionError", sid |-> << >>]
         ELSE [err |-> "none", sid |-> SubSeq(s, i + 1, Len(s))]

(* key, sid = sid.split(":", 1), then assert key == self.key: an id       *)
(* without ":" fails the unpacking with ValueError.                        *)
StripKey(k, s) ==
    IF Colons(s) = {} THEN [err |-> "ValueError", sid |-> << >>]
    ELSE LET i == CHOOSE c \in Colons(s) : \A d \in Colons(s) : c <= d IN
         IF SubSeq(s, 1, i - 1) # k
         THEN [err |-> "AssertionError", sid |-> << >>]
         ELSE [err |-> "none", sid |-> SubSeq(s, i + 1, Len(s))]

-----------------------------------------------------------------------------
Init ==
    /\ key \in [Storages -> KeyCandidates]
    /\ issued = {}
    /\ lastRead = NoRead

(* The commit callback returns self.storage._add_key(raw): the assert on  *)
(* the key fails, and the commit raises without an id, unless the key     *)
(* matches.                                                                *)
Issue(s, raw) ==
    /\ issued' = IF KeyMatches(key[s])
                 THEN issued \cup {[by |-> s, raw |-> raw, id |-> AddKey(key[s], raw)]}
                 ELSE issued
    /\ UNCHANGED <<key, lastRead>>

(* A caller hands an issued id to a storage's reader, which strips it.     *)
Read(s, item) ==
    /\ lastRead' = [at |-> s, item |-> item, result |-> StripKey(key[s], item.id)]
    /\ UNCHANGED <<key, issued>>

Next ==
    \/ \E s \in Storages, raw \in RawIds : Issue(s, raw)
    \/ \E s \in Storages, item \in issued : Read(s, item)

Spec == Init /\ [][Next]_vars

-----------------------------------------------------------------------------
TypeOK ==
    /\ key \in [Storages -> KeyCandidates]
    /\ \A item \in issued : item.by \in Storages /\ item.raw \in RawIds
    /\ lastRead.result.err \in {"none", "ValueError", "AssertionError"}

(* An id read back through the storage that issued it yields the raw id   *)
(* the backend returned, whatever ":" the raw id holds.                    *)
RoundTrip ==
    lastRead # NoRead /\ lastRead.at = lastRead.item.by =>
        lastRead.result = [err |-> "none", sid |-> lastRead.item.raw]

(* The key "help[s] detect when conflicting storage settings are used to  *)
(* access IDs generated by prior runs": an id read through a storage with *)
(* another key is refused.                                                 *)
WrongStorageDetected ==
    lastRead # NoRead /\ key[lastRead.at] # key[lastRead.item.by] =>
        lastRead.result.err = "AssertionError"
=============================================================================
