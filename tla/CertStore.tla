------------------------------ MODULE CertStore ------------------------------
(***************************************************************************)
(* The trust-anchor store handed to BearSSL (src/src/certificate_storage   *)
(* .cpp and its older copy src/nodemcu/src/certificate_storage.cpp).       *)
(* installCertStore registers two callbacks with the X.509 engine:         *)
(* findHashedTA looks a certificate up by the hash of its DN, copies its   *)
(* DER from PROGMEM into a heap buffer, parses it into a heap X509List     *)
(* kept in the member _x509, and returns a trust anchor that points into   *)
(* that list; freeHashedTA deletes _x509 when the engine is done.          *)
(*                                                                         *)
(* The heap is counted in abstract units: a DER buffer and the X509List    *)
(* parsed from it each take the certificate's size.  The rest of the       *)
(* firmware holds a varying share of the heap, so either allocation may    *)
(* fail.  The X.509 engine (BearSSL, not under src/) is the environment:   *)
(* it looks up anchors and releases each one it got, holding at most      *)
(* MaxHeld at a time.                                                      *)
(***************************************************************************)
EXTENDS Naturals, FiniteSets, Functions

CONSTANTS
  Certs,      \* the certificates of generated/certificates.h
  Size,       \* Size[c]: heap units of the DER of c and of its X509List
  Heap,       \* heap units available to the firmware
  MaxAllocs,  \* bound on the X509List objects built in one behaviour
  MaxHeld,    \* anchors the engine holds at once
  Variants    \* the copies of the file ("src", "nodemcu") the build may use

ASSUME CertConstAssumption ==
  /\ Size \in [Certs -> Nat \ {0}]
  /\ Heap \in Nat /\ MaxAllocs \in Nat /\ MaxHeld \in Nat \ {0}
  /\ Variants \subseteq {"src", "nodemcu"} /\ Variants # {}

Null == 0
Objs == 1 .. MaxAllocs

VARIABLES
  x509,     \* CertStore::_x509: Null or the X509List it points to
  heap,     \* the live X509List objects and their sizes
  held,     \* the objects whose trust anchor the engine holds
  nextObj,  \* the identity of the next X509List allocated
  other,    \* heap units held by the rest of the firmware
  crashed,  \* a write through a null pointer took the chip down
  variant   \* the copy of the file this firmware was built from

cvars == <<x509, heap, held, nextObj, other, crashed, variant>>

FreeHeap == Heap - SumFunction(heap) - other

Init ==
  /\ x509 = Null
  /\ heap = [o \in {} |-> 0]
  /\ held = {}
  /\ nextObj = 1
  /\ other \in 0 .. Heap
  /\ crashed = FALSE
  /\ variant \in Variants

\* delete p: the object p points to leaves the heap (delete nullptr is a no-op).
Delete(h, p) == [o \in DOMAIN h \ {p} |-> h[o]]

\* new X509List of certificate c, after the DER buffer of c was allocated.
Alloc(h, c) == [o \in DOMAIN h \cup {nextObj} |->
                  IF o = nextObj THEN Size[c] ELSE h[o]]
-----------------------------------------------------------------------------
(* findHashedTA of src/src: try_make_unique for the DER buffer is not       *)
(* checked before memcpy_P writes into it (lines 26-28); the X509List is    *)
(* built before the unique_ptr assignment deletes the previous one, and a  *)
(* failed allocation assigns nullptr (lines 31-35).                         *)
findHashedTA(c) ==
  IF FreeHeap < Size[c] THEN /\ crashed' = TRUE
                             /\ UNCHANGED <<x509, heap, held, nextObj>>
  ELSE IF FreeHeap - Size[c] < Size[c]
    THEN /\ x509' = Null
         /\ heap' = Delete(heap, x509)
         /\ UNCHANGED <<held, nextObj, crashed>>
    ELSE /\ x509' = nextObj
         /\ heap' = Delete(Alloc(heap, c), x509)
         /\ held' = held \cup {nextObj}
         /\ nextObj' = nextObj + 1
         /\ UNCHANGED crashed

(* findHashedTA of src/nodemcu: malloc for the DER buffer is not checked    *)
(* before memcpy_P (lines 24-25); `new X509List` overwrites _x509 without  *)
(* deleting it (line 26).  Built without exceptions, a failed new either   *)
(* aborts or returns nullptr, which line 29 checks.                        *)
findHashedTANodemcu(c) ==
  IF FreeHeap < Size[c] THEN /\ crashed' = TRUE
                             /\ UNCHANGED <<x509, heap, held, nextObj>>
  ELSE IF FreeHeap - Size[c] < Size[c]
    THEN \/ /\ crashed' = TRUE
            /\ UNCHANGED <<x509, heap, held, nextObj>>
         \/ /\ x509' = Null
            /\ UNCHANGED <<heap, held, nextObj, crashed>>
    ELSE /\ x509' = nextObj
         /\ heap' = Alloc(heap, c)
         /\ held' = held \cup {nextObj}
         /\ nextObj' = nextObj + 1
         /\ UNCHANGED crashed

\* Fault variant of freeHashedTA: _x509 is cleared but not deleted.
freeHashedTAKeep(ta) ==
  /\ x509' = Null
  /\ held' = held \ {ta}
  /\ UNCHANGED <<heap, nextObj, crashed>>

\* freeHashedTA (src 52-56, nodemcu 44-49): deletes whatever _x509 points
\* to, ignoring which anchor the engine releases.
freeHashedTA(ta) ==
  /\ heap' = Delete(heap, x509)
  /\ x509' = Null
  /\ held' = held \ {ta}
  /\ UNCHANGED <<nextObj, crashed>>
-----------------------------------------------------------------------------
\* The engine looks up the anchor of certificate c.
Lookup(c) ==
  /\ ~crashed
  /\ Cardinality(held) < MaxHeld
  /\ nextObj <= MaxAllocs
  /\ IF variant = "src" THEN findHashedTA(c) ELSE findHashedTANodemcu(c)
  /\ UNCHANGED <<other, variant>>

\* The engine is done with an anchor it got.
Release ==
  /\ ~crashed
  /\ \E ta \in held : freeHashedTA(ta)
  /\ UNCHANGED <<other, variant>>

\* The rest of the firmware allocates or frees memory.
OtherHeap ==
  /\ ~crashed
  /\ other' \in 0 .. (Heap - SumFunction(heap))
  /\ other' # other
  /\ UNCHANGED <<x509, heap, held, nextObj, crashed, variant>>

\* The exception handler resets the chip: the heap starts empty again.
Reboot ==
  /\ crashed
  /\ x509' = Null
  /\ heap' = [o \in {} |-> 0]
  /\ held' = {}
  /\ other' \in 0 .. Heap
  /\ crashed' = FALSE
  /\ UNCHANGED <<nextObj, variant>>

Next == (\E c \in Certs : Lookup(c)) \/ Release \/ OtherHeap \/ Reboot

Spec == Init /\ [][Next]_cvars
-----------------------------------------------------------------------------
(* Properties.                                                            *)

\* Once the engine has released every anchor it got, no X509List built by
\* findHashedTA is left on the heap (the pairing of findHashedTA with
\* freeHashedTA leaks nothing).
NoLeak == held = {} => DOMAIN heap = {}

\* findHashedTA never writes through a null pointer: a failed allocation
\* is reported to the engine as "no anchor" (spec.md 4.2: a bounded buffer
\* fails explicitly rather than corrupting memory).
NoNullWrite == ~crashed
=============================================================================
