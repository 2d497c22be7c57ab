-------------------------- MODULE NamespacingProofs --------------------------
(***************************************************************************)
(* Proofs about Namespacing: for any keys and raw ids, strip_key undoes   *)
(* _add_key exactly when the keys agree, because a key that passes        *)
(* _KEY_REGEX holds no ":" and the first ":" of an id is the one _add_key *)
(* wrote.                                                                  *)
(***************************************************************************)
EXTENDS Namespacing, SequenceTheorems, TLAPS

(* A key that _KEY_REGEX accepts holds no ":", the trailing newline its   *)
(* "$" lets through included.                                              *)
LEMMA KeyHasNoColon ==
    ASSUME NEW k \in Seq(Chars), KeyMatches(k)
    PROVE  \A i \in 1..Len(k) : k[i] # ":"
BY DEF KeyMatches, KeyChars

(* The id _add_key builds: the key, the ":" and the raw id, in place.      *)
LEMMA AddKeyLayout ==
    ASSUME NEW k \in Seq(Chars), NEW raw \in Seq(Chars)
    PROVE  LET s == AddKey(k, raw) IN
           /\ s \in Seq(Chars)
           /\ Len(s) = Len(k) + 1 + Len(raw)
           /\ \A i \in 1..Len(k) : s[i] = k[i]
           /\ s[Len(k) + 1] = ":"
           /\ \A i \in 1..Len(raw) : s[Len(k) + 1 + i] = raw[i]
<1> DEFINE kc == k \o <<":">>
<1>0. <<":">> \in Seq(Chars) /\ Len(<<":">>) = 1 /\ <<":">>[1] = ":"
  <2>1. ":" \in Chars
    BY DEF Chars
  <2>2. QED
    BY <2>1, AppendProperties, EmptySeq, AppendIsConcat, ConcatEmptySeq
<1>1. kc \in Seq(Chars) /\ Len(kc) = Len(k) + 1
      /\ \A i \in 1..Len(k) + 1 : kc[i] = IF i <= Len(k) THEN k[i] ELSE ":"
  BY <1>0, ConcatProperties
<1>2. /\ kc \o raw \in Seq(Chars)
      /\ Len(kc \o raw) = Len(kc) + Len(raw)
      /\ \A i \in 1..Len(kc) + Len(raw) :
            (kc \o raw)[i] = IF i <= Len(kc) THEN kc[i] ELSE raw[i - Len(kc)]
  BY <1>1, ConcatProperties
<1>3. QED
  BY <1>1, <1>2 DEF AddKey

(* strip_key(_add_key(raw)) through a storage with key k2: the raw id if  *)
(* k2 is the key that issued it, an AssertionError otherwise.              *)
LEMMA StripAddKey ==
    ASSUME NEW k \in Seq(Chars), NEW k2, NEW raw \in Seq(Chars),
           \A i \in 1..Len(k) : k[i] # ":"
    PROVE  StripKey(k2, AddKey(k, raw)) =
               IF k2 = k THEN [err |-> "none", sid |-> raw]
                         ELSE [err |-> "AssertionError", sid |-> << >>]
<1> DEFINE s == AddKey(k, raw)
           n == Len(k)
<1>1. /\ s \in Seq(Chars)
      /\ Len(s) = n + 1 + Len(raw)
      /\ \A i \in 1..n : s[i] = k[i]
      /\ s[n + 1] = ":"
      /\ \A i \in 1..Len(raw) : s[n + 1 + i] = raw[i]
  BY AddKeyLayout
<1>2. n + 1 \in Colons(s) /\ \A c \in Colons(s) : n + 1 <= c
  BY <1>1 DEF Colons
<1> DEFINE first == CHOOSE c \in Colons(s) : \A d \in Colons(s) : c <= d
<1>3. first = n + 1
  BY <1>2 DEF first
<1>3a. (n + 1) - 1 = n /\ (n + 1) + 1 = n + 2
  <2>1. n \in Nat
    BY LenProperties DEF n
  <2>2. QED
    BY <2>1
<1>4. SubSeq(s, 1, n) = k
  <2>1. SubSeq(s, 1, n) \in Seq(Chars) /\ Len(SubSeq(s, 1, n)) = n
        /\ \A i \in 1..n : SubSeq(s, 1, n)[i] = s[i]
    BY <1>1, SubSeqProperties
  <2>2. QED
    BY <1>1, <2>1, SeqEqual
<1>5. SubSeq(s, n + 2, Len(s)) = raw
  <2>1. SubSeq(s, n + 2, Len(s)) \in Seq(Chars)
        /\ Len(SubSeq(s, n + 2, Len(s))) = Len(raw)
        /\ \A i \in 1..Len(raw) : SubSeq(s, n + 2, Len(s))[i] = s[n + 1 + i]
    <3>1. \A i \in n + 2..Len(s) : s[i] \in Chars
      BY <1>1
    <3>2. QED
      BY <1>1, <3>1, SubSeqProperties
  <2>2. \A i \in 1..Len(raw) : SubSeq(s, n + 2, Len(s))[i] = raw[i]
    BY <1>1, <2>1
  <2>3. QED
    BY <1>1, <2>1, <2>2, SeqEqual
<1>6. Colons(s) # {}
  BY <1>2
<1>7. StripKey(k2, s) =
        IF SubSeq(s, 1, n) # k2 THEN [err |-> "AssertionError", sid |-> << >>]
        ELSE [err |-> "none", sid |-> SubSeq(s, n + 2, Len(s))]
  BY <1>6, <1>3, <1>3a, Zenon DEF StripKey, first
<1>8. QED
  BY <1>4, <1>5, <1>7

(* The strengthening: every issued id is its issuer's key, ":" and the    *)
(* raw id, issued under a key that passed the check, and the last read is *)
(* strip_key applied to an issued id.                                      *)
IssuedWellFormed(item) ==
    /\ item.by \in Storages
    /\ item.raw \in RawIds
    /\ KeyMatches(key[item.by])
    /\ item.id = AddKey(key[item.by], item.raw)

NInv ==
    /\ key \in [Storages -> KeyCandidates]
    /\ \A item \in issued : IssuedWellFormed(item)
    /\ \/ lastRead = NoRead
       \/ /\ lastRead.at \in Storages
          /\ lastRead.item \in issued
          /\ lastRead.result = StripKey(key[lastRead.at], lastRead.item.id)

(* Every state of a run satisfies the strengthening.                        *)
LEMMA NInvInductive == Spec => []NInv
<1>1. Init => NInv
  BY DEF Init, NInv
<1>2. NInv /\ [Next]_vars => NInv'
  <2> SUFFICES ASSUME NInv, [Next]_vars PROVE NInv'
    OBVIOUS
  <2>1. ASSUME NEW s \in Storages, NEW raw \in RawIds, Issue(s, raw)
        PROVE  NInv'
    BY <2>1 DEF NInv, IssuedWellFormed, Issue
  <2>2. ASSUME NEW s \in Storages, NEW item \in issued, Read(s, item)
        PROVE  NInv'
    BY <2>2 DEF NInv, IssuedWellFormed, Read
  <2>3. CASE UNCHANGED vars
    BY <2>3 DEF NInv, IssuedWellFormed, vars
  <2>4. QED
    BY <2>1, <2>2, <2>3 DEF Next
<1>3. QED
  BY <1>1, <1>2, PTL DEF Spec

(* The result of the last read, from the lemma: the raw id through the    *)
(* issuing key, an AssertionError through any other.                       *)
LEMMA LastReadResult ==
    ASSUME NInv, lastRead # NoRead
    PROVE  lastRead.result =
               IF key[lastRead.at] = key[lastRead.item.by]
               THEN [err |-> "none", sid |-> lastRead.item.raw]
               ELSE [err |-> "AssertionError", sid |-> << >>]
<1> DEFINE item == lastRead.item
           k == key[item.by]
<1>1. item \in issued /\ lastRead.at \in Storages
      /\ lastRead.result = StripKey(key[lastRead.at], item.id)
  BY DEF NInv
<1>2. IssuedWellFormed(item)
  BY <1>1 DEF NInv
<1>3. k \in Seq(Chars) /\ item.raw \in Seq(Chars) /\ KeyMatches(k)
  BY <1>2, NamespacingAssumption DEF NInv, IssuedWellFormed
<1>4. \A i \in 1..Len(k) : k[i] # ":"
  BY <1>3, KeyHasNoColon
<1>5. item.id = AddKey(k, item.raw)
  BY <1>2 DEF IssuedWellFormed
<1>6. QED
  BY <1>1, <1>3, <1>4, <1>5, StripAddKey

(* strip_key undoes _add_key: for any storages, keys and raw ids, an id   *)
(* read back through the storage that issued it yields the backend's raw  *)
(* id, ":" in it or not.                                                   *)
THEOREM RoundTripProof == Spec => []RoundTrip
<1>1. NInv => RoundTrip
  BY LastReadResult DEF RoundTrip
<1>2. QED
  BY NInvInductive, <1>1, PTL

(* The key detects conflicting storage settings: for any storages, keys   *)
(* and raw ids, an id read through a storage with another key is refused  *)
(* with an AssertionError.                                                 *)
THEOREM WrongStorageProof == Spec => []WrongStorageDetected
<1>1. NInv => WrongStorageDetected
  BY LastReadResult DEF WrongStorageDetected
<1>2. QED
  BY NInvInductive, <1>1, PTL
=============================================================================
