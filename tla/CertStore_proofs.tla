---------------------------- MODULE CertStore_proofs ----------------------------
(***************************************************************************)
(* Proofs about the trust-anchor callbacks, for every set of certificates, *)
(* every size and every heap, in both copies of the file, when the X.509   *)
(* engine holds one anchor at a time.                                      *)
(***************************************************************************)
EXTENDS CertStore, FiniteSetTheorems, TLAPS

\* With one anchor held at a time, _x509 is either null with nothing held
\* and nothing on the heap, or the one live X509List, whose anchor is held.
Ownership ==
  /\ nextObj \in Nat \ {0}
  /\ \/ /\ held = {} /\ x509 = Null /\ DOMAIN heap = {}
     \/ /\ x509 # Null /\ held = {x509} /\ DOMAIN heap = {x509}

\* delete and new change the set of live objects as expected.
LEMMA HeapDomains ==
  ASSUME NEW h, NEW p, NEW c
  PROVE  /\ DOMAIN Delete(h, p) = DOMAIN h \ {p}
         /\ DOMAIN Alloc(h, c) = DOMAIN h \cup {nextObj}
BY DEF Delete, Alloc

\* A lookup finds nothing held: the engine releases each anchor first.
LEMMA LookupFromEmpty ==
  ASSUME MaxHeld = 1, Ownership, NEW c, Lookup(c)
  PROVE  held = {} /\ x509 = Null /\ DOMAIN heap = {}
<1>1. Cardinality(held) < 1
  BY DEF Lookup
<1>2. Cardinality({x509}) = 1
  BY FS_Singleton
<1>3. held # {x509}
  BY <1>1, <1>2
<1> QED BY <1>3 DEF Ownership

\* The src findHashedTA from an empty store: a crash changes nothing, a list
\* that does not fit leaves the store empty, a built list is the one held.
LEMMA FindSrc ==
  ASSUME NEW c, nextObj \in Nat \ {0},
         held = {}, x509 = Null, DOMAIN heap = {},
         findHashedTA(c), UNCHANGED other
  PROVE  Ownership'
<1>1. CASE FreeHeap < Size[c]
  BY <1>1 DEF findHashedTA, Ownership
<1>2. CASE ~(FreeHeap < Size[c]) /\ FreeHeap - Size[c] < Size[c]
  <2>1. x509' = Null /\ heap' = Delete(heap, x509)
        /\ UNCHANGED <<held, nextObj>>
    BY <1>2 DEF findHashedTA
  <2>2. DOMAIN Delete(heap, x509) = {}
    BY DEF Delete
  <2> QED BY <2>1, <2>2 DEF Ownership
<1>3. CASE ~(FreeHeap < Size[c]) /\ ~(FreeHeap - Size[c] < Size[c])
  <2>1. x509' = nextObj /\ held' = {nextObj} /\ nextObj' = nextObj + 1
        /\ heap' = Delete(Alloc(heap, c), x509)
    BY <1>3 DEF findHashedTA
  <2>2. DOMAIN Alloc(heap, c) = {nextObj}
    BY HeapDomains
  <2>3. DOMAIN Delete(Alloc(heap, c), x509) = {nextObj} \ {Null}
    BY <2>2 DEF Delete
  <2>4. nextObj # Null
    BY DEF Null
  <2> QED BY <2>1, <2>3, <2>4 DEF Ownership
<1> QED BY <1>1, <1>2, <1>3

\* The same for the nodemcu findHashedTA, whose failed new may also abort.
LEMMA FindNodemcu ==
  ASSUME NEW c, nextObj \in Nat \ {0},
         held = {}, x509 = Null, DOMAIN heap = {},
         findHashedTANodemcu(c), UNCHANGED other
  PROVE  Ownership'
<1>1. CASE FreeHeap < Size[c]
  BY <1>1 DEF findHashedTANodemcu, Ownership
<1>2. CASE ~(FreeHeap < Size[c]) /\ FreeHeap - Size[c] < Size[c]
  BY <1>2 DEF findHashedTANodemcu, Ownership
<1>3. CASE ~(FreeHeap < Size[c]) /\ ~(FreeHeap - Size[c] < Size[c])
  <2>1. x509' = nextObj /\ held' = {nextObj} /\ nextObj' = nextObj + 1
        /\ heap' = Alloc(heap, c)
    BY <1>3 DEF findHashedTANodemcu
  <2>2. DOMAIN Alloc(heap, c) = {nextObj}
    BY HeapDomains
  <2>3. nextObj # Null
    BY DEF Null
  <2> QED BY <2>1, <2>2, <2>3 DEF Ownership
<1> QED BY <1>1, <1>2, <1>3

\* Ownership holds in every state, whatever allocations fail.
THEOREM OwnershipInvariant ==
  ASSUME MaxHeld = 1
  PROVE  Spec => []Ownership
<1>1. Init => Ownership
  BY DEF Init, Ownership, Null
<1>2. Ownership /\ [Next]_cvars => Ownership'
  <2> SUFFICES ASSUME Ownership, [Next]_cvars PROVE Ownership'
    OBVIOUS
  <2>1. CASE \E c \in Certs : Lookup(c)
    <3>1. PICK c \in Certs : Lookup(c)
      BY <2>1
    <3>2. held = {} /\ x509 = Null /\ DOMAIN heap = {}
      BY <3>1, LookupFromEmpty
    <3>3. nextObj \in Nat \ {0} /\ UNCHANGED other
      BY <3>1 DEF Ownership, Lookup
    <3>4. CASE variant = "src"
      BY <3>1, <3>2, <3>3, <3>4, FindSrc DEF Lookup
    <3>5. CASE variant # "src"
      BY <3>1, <3>2, <3>3, <3>5, FindNodemcu DEF Lookup
    <3> QED BY <3>4, <3>5
  <2>2. CASE Release
    <3>1. PICK ta \in held : freeHashedTA(ta)
      BY <2>2 DEF Release
    <3>2. held = {x509} /\ DOMAIN heap = {x509}
      BY <3>1 DEF Ownership
    <3>3. DOMAIN Delete(heap, x509) = {}
      BY <3>2 DEF Delete
    <3>4. held \ {ta} = {}
      BY <3>1, <3>2
    <3>5. held' = {} /\ x509' = Null /\ DOMAIN heap' = {}
      BY <3>1, <3>3, <3>4 DEF freeHashedTA
    <3> QED BY <3>1, <3>5 DEF freeHashedTA, Ownership
  <2>3. CASE OtherHeap
    BY <2>3 DEF OtherHeap, Ownership
  <2>4. CASE Reboot
    BY <2>4 DEF Reboot, Ownership
  <2>5. CASE UNCHANGED cvars
    BY <2>5 DEF cvars, Ownership
  <2> QED BY <2>1, <2>2, <2>3, <2>4, <2>5 DEF Next
<1> QED BY <1>1, <1>2, PTL DEF Spec

\* Once the engine has released its anchor no X509List is left on the
\* heap, in both copies of findHashedTA and freeHashedTA, for every heap.
THEOREM NoLeakHolds ==
  ASSUME MaxHeld = 1
  PROVE  Spec => []NoLeak
<1>1. Ownership => NoLeak
  BY DEF Ownership, NoLeak
<1> QED BY <1>1, OwnershipInvariant, PTL

-----------------------------------------------------------------------------
(* The src copy leaks nothing however many anchors the engine holds.      *)

\* In the src copy _x509 owns the only live X509List: the unique_ptr
\* assignment deletes the previous list, and a list stays owned only while
\* its anchor is held.  Lists are numbered in allocation order, so the list
\* _x509 points to is older than the next one built.
SrcOwnership ==
  /\ variant \in Variants
  /\ nextObj \in Nat \ {0}
  /\ x509 \in Nat /\ x509 < nextObj
  /\ DOMAIN heap = IF x509 = Null THEN {} ELSE {x509}
  /\ x509 # Null => x509 \in held

\* findHashedTA of src keeps SrcOwnership in each of its three outcomes.
LEMMA FindSrcOwnership ==
  ASSUME NEW c, SrcOwnership, findHashedTA(c), UNCHANGED variant
  PROVE  SrcOwnership'
<1>1. CASE FreeHeap < Size[c]
  BY <1>1 DEF findHashedTA, SrcOwnership
<1>2. CASE ~(FreeHeap < Size[c]) /\ FreeHeap - Size[c] < Size[c]
  <2>1. x509' = Null /\ heap' = Delete(heap, x509)
        /\ UNCHANGED <<held, nextObj>>
    BY <1>2 DEF findHashedTA
  <2>2. DOMAIN Delete(heap, x509) = {}
    BY DEF SrcOwnership, Delete, Null
  <2> QED BY <2>1, <2>2 DEF SrcOwnership, Null
<1>3. CASE ~(FreeHeap < Size[c]) /\ ~(FreeHeap - Size[c] < Size[c])
  <2>1. x509' = nextObj /\ held' = held \cup {nextObj} /\ nextObj' = nextObj + 1
        /\ heap' = Delete(Alloc(heap, c), x509)
    BY <1>3 DEF findHashedTA
  <2>2. DOMAIN Alloc(heap, c) = DOMAIN heap \cup {nextObj}
    BY HeapDomains
  <2>3. DOMAIN Delete(Alloc(heap, c), x509) = {nextObj}
    BY <2>2 DEF SrcOwnership, Delete, Null
  <2>4. nextObj # Null /\ nextObj \in Nat /\ nextObj < nextObj + 1
    BY DEF SrcOwnership, Null
  <2> QED BY <2>1, <2>3, <2>4 DEF SrcOwnership
<1> QED BY <1>1, <1>2, <1>3

\* SrcOwnership holds in every state of a src build, whatever MaxHeld is.
THEOREM SrcOwnershipInvariant ==
  ASSUME Variants = {"src"}
  PROVE  Spec => []SrcOwnership
<1>1. Init => SrcOwnership
  BY DEF Init, SrcOwnership, Null
<1>2. SrcOwnership /\ [Next]_cvars => SrcOwnership'
  <2> SUFFICES ASSUME SrcOwnership, [Next]_cvars PROVE SrcOwnership'
    OBVIOUS
  <2>1. CASE \E c \in Certs : Lookup(c)
    <3>1. PICK c \in Certs : Lookup(c)
      BY <2>1
    <3>2. variant = "src"
      BY DEF SrcOwnership
    <3> QED BY <3>1, <3>2, FindSrcOwnership DEF Lookup
  <2>2. CASE Release
    <3>1. PICK ta \in held : freeHashedTA(ta)
      BY <2>2 DEF Release
    <3>2. DOMAIN Delete(heap, x509) = {}
      BY DEF SrcOwnership, Delete, Null
    <3> QED BY <2>2, <3>1, <3>2 DEF Release, freeHashedTA, SrcOwnership, Null
  <2>3. CASE OtherHeap
    BY <2>3 DEF OtherHeap, SrcOwnership
  <2>4. CASE Reboot
    BY <2>4 DEF Reboot, SrcOwnership, Null
  <2>5. CASE UNCHANGED cvars
    BY <2>5 DEF cvars, SrcOwnership
  <2> QED BY <2>1, <2>2, <2>3, <2>4, <2>5 DEF Next
<1> QED BY <1>1, <1>2, PTL DEF Spec

\* A src build leaks no X509List once the engine has released every
\* anchor, however many it holds at once: the unique_ptr of
\* src/src/certificate_storage.cpp:31 deletes the list an earlier lookup
\* left, which the raw pointer of the nodemcu copy does not.
THEOREM SrcNoLeak ==
  ASSUME Variants = {"src"}
  PROVE  Spec => []NoLeak
<1>1. SrcOwnership => NoLeak
  BY DEF SrcOwnership, NoLeak, Null
<1> QED BY <1>1, SrcOwnershipInvariant, PTL
=============================================================================
