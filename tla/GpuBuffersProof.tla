---------------------------- MODULE GpuBuffersProof ----------------------------
(***************************************************************************)
(* Proofs about GpuBuffers, for any clients, identifiers and number of     *)
(* buffers.                                                                *)
(*                                                                         *)
(* The argument: a Gpu_vram is reached from exactly one entry of its       *)
(* owner's tables, which also has the Buffer_object (LocalsOK, OwnerOK),   *)
(* and no object occurs twice in the tables of a session (DistinctOK), so  *)
(* that releasing one entry closes no handle that another one needs.       *)
(* Numbers above objects occur nowhere (FreshOK).                          *)
(***************************************************************************)
EXTENDS GpuBuffers, TLAPS

Number == Objects \cup {None}
Local  == [cap : Number, exported : BOOLEAN, handle : Number]

LocalOK(s, i) ==
    LET l == locals[s][i] IN
    /\ l.handle \in {None, l.cap}
    /\ l.cap = None => l = NoLocal
    /\ l.exported => buffers[s][i] # None
    /\ l.cap # None /\ buffers[s][i] # None => buffers[s][i] = l.cap /\ l.handle = None
    /\ l.handle # None => vram[l.cap] # s
    /\ l.cap # None => (vram[l.cap] = s <=> buffers[s][i] # None)

LocalsOK == \A s \in Clients, i \in Ids : LocalOK(s, i)

FreshOK ==
    \A o \in Objects : o > objects =>
        /\ o \notin known
        /\ \A s \in Clients, i \in Ids : buffers[s][i] # o /\ locals[s][i].cap # o

OwnerOK ==
    \A o \in Objects : vram[o] # NoVram =>
        /\ session[vram[o]] = "open"
        /\ o \in handles[vram[o]]
        /\ \E i \in Ids : locals[vram[o]][i].cap = o

BuffersOK ==
    \A s \in Clients, i \in Ids : buffers[s][i] # None => vram[buffers[s][i]] \in {s, NoVram}

DistinctOK ==
    \A s \in Clients : \A i, j \in Ids :
        /\ i # j /\ buffers[s][i] # None => buffers[s][i] # buffers[s][j]
        /\ i # j /\ locals[s][i].cap # None => locals[s][i].cap # locals[s][j].cap
        /\ locals[s][i].handle # None => locals[s][i].handle # buffers[s][j]

UnusedOK ==
    \A s \in Clients : session[s] = "none" =>
        /\ handles[s] = {}
        /\ \A i \in Ids : buffers[s][i] = None /\ locals[s][i] = NoLocal

\* HandlesRecorded, entry by entry
HandlesOK ==
    \A s \in Clients : session[s] = "open" =>
        /\ \A i \in Ids :
             /\ buffers[s][i] # None => buffers[s][i] \in handles[s]
             /\ locals[s][i].handle # None => locals[s][i].handle \in handles[s]
        /\ s \in refused \/ \A o \in handles[s] :
             \E i \in Ids : buffers[s][i] = o \/ locals[s][i].handle = o

BuffersInv ==
    /\ BuffersTypeOK
    /\ LocalsOK /\ FreshOK /\ OwnerOK /\ BuffersOK /\ DistinctOK /\ UnusedOK
    /\ HandlesOK /\ IdsComeBack /\ ExportsImportable

-----------------------------------------------------------------------------

\* Entries of the tables of a session in a state that satisfies the invariant
LEMMA EntryTypes ==
    ASSUME BuffersTypeOK, NEW s \in Clients, NEW i \in Ids
    PROVE  /\ buffers[s][i] \in Number
           /\ locals[s][i] \in Local
           /\ locals[s][i].cap \in Number /\ locals[s][i].handle \in Number
           /\ handles[s] \subseteq Objects
  BY DEF BuffersTypeOK, Number, Local

LEMMA NoLocalFields ==
    NoLocal \in Local /\ NoLocal.cap = None /\ NoLocal.handle = None /\ ~NoLocal.exported
  BY DEF NoLocal, Local, Number

\* Objects are positive numbers, and no client is called like NoVram.
LEMMA ConstantFacts == None \notin Objects /\ NoVram \notin Clients /\ Objects \subseteq Nat
  BY GpuBuffersAssumption DEF None, Objects, NoVram

LEMMA InitBuffersInv == BuffersInit => BuffersInv
  <1> SUFFICES ASSUME BuffersInit PROVE BuffersInv
    OBVIOUS
  <1>1. BuffersTypeOK
    <2>1. NoLocal \in [cap : Objects \cup {None}, exported : BOOLEAN, handle : Objects \cup {None}]
      BY NoLocalFields DEF Local, Number
    <2>2. objects \in 0 .. MaxObjects
      BY GpuBuffersAssumption DEF BuffersInit
    <2> QED BY <2>1, <2>2 DEF BuffersInit, BuffersTypeOK, None, NoVram
  <1>2. LocalsOK
    BY NoLocalFields DEF BuffersInit, LocalsOK, LocalOK, None
  <1>3. FreshOK
    BY NoLocalFields, ConstantFacts DEF BuffersInit, FreshOK
  <1>4. OwnerOK /\ BuffersOK /\ DistinctOK /\ UnusedOK
    BY NoLocalFields DEF BuffersInit, OwnerOK, BuffersOK, DistinctOK, UnusedOK
  <1>5. HandlesOK /\ IdsComeBack /\ ExportsImportable
    BY DEF BuffersInit, HandlesOK, IdsComeBack, ExportsImportable
  <1> QED BY <1>1, <1>2, <1>3, <1>4, <1>5 DEF BuffersInv

-----------------------------------------------------------------------------
(* Steps that leave the tables alone *)

LEMMA WaitInv ==
    ASSUME BuffersInv, NEW s \in Clients, BeginWait(s) \/ EndWait(s)
    PROVE  BuffersInv'
  <1>1. UNCHANGED <<session, buffers, locals, vram, import_name, handles, named,
                    known, objects, refused>>
    BY DEF BeginWait, EndWait
  <1>2. waiting' \in [Clients -> BOOLEAN]
    BY DEF BuffersInv, BuffersTypeOK, BeginWait, EndWait
  <1>3. BuffersTypeOK'
    BY <1>1, <1>2 DEF BuffersInv, BuffersTypeOK
  <1> QED BY <1>1, <1>3 DEF BuffersInv, LocalsOK, LocalOK, FreshOK, OwnerOK, BuffersOK,
            DistinctOK, UnusedOK, HandlesOK, IdsComeBack, ExportsImportable, Contains, Managed

LEMMA OpenInv ==
    ASSUME BuffersInv, NEW s \in Clients, OpenSession(s)
    PROVE  BuffersInv'
  <1>1. UNCHANGED <<waiting, buffers, locals, vram, import_name, handles, named,
                    known, objects, refused>>
    BY DEF OpenSession
  <1>2. /\ session' \in [Clients -> {"none", "open", "closed"}]
        /\ \A t \in Clients : session'[t] = IF t = s THEN "open" ELSE session[t]
        /\ session[s] = "none"
    BY DEF BuffersInv, BuffersTypeOK, OpenSession
  <1>3. BuffersTypeOK'
    BY <1>1, <1>2 DEF BuffersInv, BuffersTypeOK
  <1>4. OwnerOK'
    BY <1>1, <1>2 DEF BuffersInv, BuffersTypeOK, OwnerOK
  <1>5. UnusedOK'
    BY <1>1, <1>2 DEF BuffersInv, UnusedOK
  <1>6. HandlesOK' /\ IdsComeBack'
    <2>1. handles[s] = {} /\ \A i \in Ids : buffers[s][i] = None /\ locals[s][i].handle = None
      BY <1>2, NoLocalFields DEF BuffersInv, UnusedOK
    <2> QED BY <1>1, <1>2, <2>1 DEF BuffersInv, HandlesOK, IdsComeBack, Contains
  <1> QED BY <1>1, <1>3, <1>4, <1>5, <1>6 DEF BuffersInv, LocalsOK, LocalOK, FreshOK,
            BuffersOK, DistinctOK, ExportsImportable, Managed

-----------------------------------------------------------------------------
(* Allocation *)

LEMMA MapInv ==
    ASSUME BuffersInv, NEW s \in Clients, NEW i \in Ids, MapGpu(s, i)
    PROVE  BuffersInv'
  <1> DEFINE o == objects + 1
             l == [NoLocal EXCEPT !.cap = o]
  <1>1. o \in Objects /\ o > objects /\ objects' = o /\ objects' \in 0 .. MaxObjects
    BY GpuBuffersAssumption DEF BuffersInv, BuffersTypeOK, MapGpu, MayMap, Objects
  <1>2. session[s] = "open" /\ buffers[s][i] = None /\ ~waiting[s]
    BY DEF MapGpu, MayMap
  <1>3. UNCHANGED <<session, waiting, import_name, named, known, refused>>
    BY DEF MapGpu
  <1>4. \A p \in Objects : p > objects' => p > objects /\ p # o
    BY <1>1 DEF BuffersInv, BuffersTypeOK, Objects
  <1>5. CASE UNCHANGED <<buffers, handles, vram, locals>>
    <2>1. BuffersTypeOK'
      BY <1>1, <1>3, <1>5 DEF BuffersInv, BuffersTypeOK
    <2>2. FreshOK'
      BY <1>3, <1>4, <1>5 DEF BuffersInv, FreshOK
    <2> QED BY <1>3, <1>5, <2>1, <2>2 DEF BuffersInv, LocalsOK, LocalOK, OwnerOK, BuffersOK,
            DistinctOK, UnusedOK, HandlesOK, IdsComeBack, ExportsImportable, Contains, Managed
  <1>6. CASE ~Contains(s, i) /\ MapGpuWith(s, i, TRUE)
    <2> USE DEF MapGpuWith
    <2>1. l \in Local /\ l.cap = o /\ l.handle = None /\ ~l.exported
      BY <1>1, NoLocalFields DEF Local, Number
    <2>2. /\ buffers' = [buffers EXCEPT ![s][i] = o]
          /\ handles' = [handles EXCEPT ![s] = @ \cup {o}]
          /\ vram' = [vram EXCEPT ![o] = s]
          /\ locals' = [locals EXCEPT ![s][i] = l]
      BY <1>6
    <2> HIDE DEF o, l, MapGpuWith
    <2>3. \A t \in Clients, j \in Ids :
            /\ buffers'[t][j] = IF t = s /\ j = i THEN o ELSE buffers[t][j]
            /\ locals'[t][j] = IF t = s /\ j = i THEN l ELSE locals[t][j]
      BY <2>2 DEF BuffersInv, BuffersTypeOK
    <2>4. \A t \in Clients : handles'[t] = IF t = s THEN handles[s] \cup {o} ELSE handles[t]
      BY <2>2 DEF BuffersInv, BuffersTypeOK
    <2>5. \A p \in Objects : vram'[p] = IF p = o THEN s ELSE vram[p]
      BY <2>2, <1>1 DEF BuffersInv, BuffersTypeOK
    <2>6. BuffersTypeOK'
      BY <1>1, <1>3, <2>1, <2>2 DEF BuffersInv, BuffersTypeOK, Local, Number
    <2>7. \A t \in Clients, j \in Ids :
            buffers[t][j] # o /\ locals[t][j].cap # o /\ locals[t][j].handle # o
      <3>1. \A t \in Clients, j \in Ids : buffers[t][j] # o /\ locals[t][j].cap # o
        BY <1>1 DEF BuffersInv, FreshOK
      <3> QED BY <3>1, <1>1, ConstantFacts DEF BuffersInv, LocalsOK, LocalOK
    <2>8. o \notin known
      BY <1>1 DEF BuffersInv, FreshOK
    <2>9. vram[o] = NoVram
      <3> SUFFICES ASSUME vram[o] # NoVram PROVE FALSE
        OBVIOUS
      <3>1. vram[o] \in Clients
        BY <1>1 DEF BuffersInv, BuffersTypeOK
      <3> QED BY <1>1, <2>7, <3>1 DEF BuffersInv, OwnerOK
    <2>10. LocalsOK'
      <3> SUFFICES ASSUME NEW t \in Clients, NEW j \in Ids PROVE LocalOK(t, j)'
        BY DEF LocalsOK
      <3>1. CASE t = s /\ j = i
        BY <1>1, <2>1, <2>3, <2>5, <3>1, ConstantFacts DEF LocalOK
      <3>2. CASE ~(t = s /\ j = i)
        <4>1. locals'[t][j] = locals[t][j] /\ buffers'[t][j] = buffers[t][j]
          BY <2>3, <3>2
        <4>2. locals[t][j].cap # None => vram'[locals[t][j].cap] = vram[locals[t][j].cap]
          BY <2>5, <2>7, EntryTypes DEF BuffersInv, Number
        <4>3. LocalOK(t, j)
          BY DEF BuffersInv, LocalsOK
        <4> QED BY <4>1, <4>2, <4>3 DEF LocalOK
      <3> QED BY <3>1, <3>2
    <2>11. FreshOK'
      BY <1>3, <1>4, <2>1, <2>3 DEF BuffersInv, FreshOK
    <2>12. OwnerOK'
      <3> SUFFICES ASSUME NEW p \in Objects, vram'[p] # NoVram
                   PROVE  /\ session'[vram'[p]] = "open" /\ p \in handles'[vram'[p]]
                          /\ \E j \in Ids : locals'[vram'[p]][j].cap = p
        BY DEF OwnerOK
      <3>1. CASE p = o
        BY <1>2, <1>3, <2>1, <2>3, <2>4, <2>5, <3>1
      <3>2. CASE p # o
        <4>1. vram'[p] = vram[p] /\ vram[p] \in Clients
          BY <2>5, <3>2 DEF BuffersInv, BuffersTypeOK
        <4>2. PICK j \in Ids : locals[vram[p]][j].cap = p
          BY <4>1 DEF BuffersInv, OwnerOK
        <4>3. ~(vram[p] = s /\ j = i)
          BY <1>6, <4>2, NoLocalFields, ConstantFacts DEF Contains
        <4> QED BY <1>3, <2>3, <2>4, <4>1, <4>2, <4>3 DEF BuffersInv, OwnerOK
      <3> QED BY <3>1, <3>2
    <2>13. BuffersOK'
      <3> SUFFICES ASSUME NEW t \in Clients, NEW j \in Ids, buffers'[t][j] # None
                   PROVE  vram'[buffers'[t][j]] \in {t, NoVram}
        BY DEF BuffersOK
      <3>1. CASE t = s /\ j = i
        BY <1>1, <2>3, <2>5, <3>1
      <3>2. CASE ~(t = s /\ j = i)
        <4>1. buffers'[t][j] = buffers[t][j] /\ buffers[t][j] \in Objects
          BY <2>3, <3>2, EntryTypes DEF BuffersInv, Number
        <4> QED BY <2>5, <2>7, <4>1 DEF BuffersInv, BuffersOK
      <3> QED BY <3>1, <3>2
    <2>14. DistinctOK'
      <3> SUFFICES ASSUME NEW t \in Clients, NEW j \in Ids, NEW k \in Ids
            PROVE /\ j # k /\ buffers'[t][j] # None => buffers'[t][j] # buffers'[t][k]
                  /\ j # k /\ locals'[t][j].cap # None => locals'[t][j].cap # locals'[t][k].cap
                  /\ locals'[t][j].handle # None => locals'[t][j].handle # buffers'[t][k]
        BY DEF DistinctOK
      <3> QED BY <2>1, <2>3, <2>7 DEF BuffersInv, DistinctOK
    <2>15. UnusedOK'
      BY <1>2, <1>3, <2>3, <2>4 DEF BuffersInv, UnusedOK
    <2>16. HandlesOK'
      <3> SUFFICES ASSUME NEW t \in Clients, session[t] = "open"
            PROVE /\ \A j \in Ids :
                       /\ buffers'[t][j] # None => buffers'[t][j] \in handles'[t]
                       /\ locals'[t][j].handle # None => locals'[t][j].handle \in handles'[t]
                  /\ t \in refused \/ \A p \in handles'[t] :
                       \E j \in Ids : buffers'[t][j] = p \/ locals'[t][j].handle = p
        BY <1>3 DEF HandlesOK
      <3>1. \A j \in Ids :
               /\ buffers'[t][j] # None => buffers'[t][j] \in handles'[t]
               /\ locals'[t][j].handle # None => locals'[t][j].handle \in handles'[t]
        BY <2>1, <2>3, <2>4 DEF BuffersInv, HandlesOK
      <3>2. ASSUME t \notin refused, NEW p \in handles'[t]
            PROVE  \E j \in Ids : buffers'[t][j] = p \/ locals'[t][j].handle = p
        <4>1. CASE t = s /\ p = o
          BY <2>3, <4>1
        <4>2. CASE ~(t = s /\ p = o)
          <5>1. PICK j \in Ids : buffers[t][j] = p \/ locals[t][j].handle = p
            BY <2>4, <3>2, <4>2 DEF BuffersInv, HandlesOK
          <5>2. p # None
            BY <2>4, <3>2, <4>2, ConstantFacts DEF BuffersInv, BuffersTypeOK
          <5>3. ~(t = s /\ j = i)
            BY <1>2, <1>6, <5>1, <5>2, NoLocalFields DEF Contains
          <5> QED BY <2>3, <5>1, <5>3
        <4> QED BY <4>1, <4>2
      <3> QED BY <3>1, <3>2
    <2>17. IdsComeBack'
      <3>1. l # NoLocal
        BY <1>1, <2>1, NoLocalFields, ConstantFacts
      <3> QED BY <1>3, <2>3, <3>1 DEF BuffersInv, IdsComeBack, Contains
    <2>18. ExportsImportable'
      BY <1>3, <2>5, <2>8 DEF BuffersInv, BuffersTypeOK, ExportsImportable, Managed
    <2> QED BY <2>6, <2>10, <2>11, <2>12, <2>13, <2>14, <2>15, <2>16, <2>17, <2>18 DEF BuffersInv
  <1> QED BY <1>5, <1>6 DEF MapGpu

-----------------------------------------------------------------------------
(* Release *)

\* A named object that is managed keeps its name, as its owner has a handle.
LEMMA NamesKept ==
    ASSUME BuffersTypeOK, ExportsImportable, OwnerOK', known' = known, known \subseteq Objects,
           vram' \in [Objects -> Clients \cup {NoVram}],
           \A p \in Objects : vram'[p] # NoVram => vram[p] # NoVram /\ (p \in import_name => p \in import_name'),
           named' = named \cap Live(handles')
    PROVE  ExportsImportable'
  <1> SUFFICES ASSUME NEW p \in known, Managed(p)'
               PROVE  p \in import_name' /\ p \in named'
    BY DEF ExportsImportable
  <1>1. p \in Objects /\ vram'[p] # NoVram /\ vram'[p] \in Clients
    BY DEF Managed
  <1>2. Managed(p)
    BY <1>1, ConstantFacts DEF Managed
  <1>3. p \in Live(handles')
    BY <1>1 DEF OwnerOK, Live
  <1> QED BY <1>1, <1>2, <1>3 DEF ExportsImportable

LEMMA UnmapInv ==
    ASSUME BuffersInv, NEW s \in Clients, NEW i \in Ids, UnmapGpu(s, i)
    PROVE  BuffersInv'
  <1> DEFINE o == locals[s][i].cap
  <1>1. /\ o \in Objects /\ o # None /\ vram[o] = s /\ buffers[s][i] = o
        /\ session[s] = "open" /\ locals[s][i].handle = None
    <2>1. o # None /\ vram[o] = s /\ session[s] = "open"
      BY DEF UnmapGpu, Owner, Managed
    <2>2. o \in Objects
      BY <2>1, EntryTypes DEF BuffersInv, Number
    <2>3. LocalOK(s, i)
      BY DEF BuffersInv, LocalsOK
    <2> QED BY <2>1, <2>2, <2>3 DEF LocalOK
  <1>2. UNCHANGED <<session, waiting, known, objects>>
    BY DEF UnmapGpu
  <1>3. /\ vram' = [p \in Objects |-> IF p = o THEN NoVram ELSE vram[p]]
        /\ import_name' = import_name \ {o}
        /\ buffers' = [buffers EXCEPT ![s] =
                         [j \in Ids |-> IF j = i /\ ~waiting[s] THEN None ELSE @[j]]]
    BY DEF UnmapGpu, Unmapped
  <1>4. /\ locals' = [locals EXCEPT ![s][i] = NoLocal]
        /\ handles' = [handles EXCEPT ![s] = IF waiting[s] THEN @ ELSE @ \ {o}]
        /\ named' = named \cap Live(handles')
        /\ refused' = IF waiting[s] THEN refused \cup {s} ELSE refused
    BY <1>1 DEF UnmapGpu, CloseHandles
  <1>5. \A t \in Clients, j \in Ids :
          /\ buffers'[t][j] = IF t = s /\ j = i /\ ~waiting[s] THEN None ELSE buffers[t][j]
          /\ locals'[t][j] = IF t = s /\ j = i THEN NoLocal ELSE locals[t][j]
    BY <1>3, <1>4 DEF BuffersInv, BuffersTypeOK
  <1>6. \A t \in Clients :
          handles'[t] = IF t = s /\ ~waiting[s] THEN handles[s] \ {o} ELSE handles[t]
    BY <1>4 DEF BuffersInv, BuffersTypeOK
  <1>7. \A p \in Objects : vram'[p] = IF p = o THEN NoVram ELSE vram[p]
    BY <1>3
  <1>8. BuffersTypeOK'
    <2>1. buffers' \in [Clients -> [Ids -> Objects \cup {None}]]
      BY <1>3 DEF BuffersInv, BuffersTypeOK
    <2>2. locals' \in [Clients -> [Ids -> Local]]
      BY <1>4, NoLocalFields DEF BuffersInv, BuffersTypeOK, Local, Number
    <2>3. vram' \in [Objects -> Clients \cup {NoVram}]
      BY <1>3 DEF BuffersInv, BuffersTypeOK
    <2>4. handles' \in [Clients -> SUBSET Objects]
      BY <1>4 DEF BuffersInv, BuffersTypeOK
    <2> QED BY <1>2, <1>3, <1>4, <2>1, <2>2, <2>3, <2>4 DEF BuffersInv, BuffersTypeOK, Local, Number
  <1> HIDE DEF o
  <1>9. LocalsOK'
    <2> SUFFICES ASSUME NEW t \in Clients, NEW j \in Ids PROVE LocalOK(t, j)'
      BY DEF LocalsOK
    <2>1. CASE t = s /\ j = i
      BY <1>5, <2>1, NoLocalFields DEF LocalOK
    <2>2. CASE ~(t = s /\ j = i)
      <3>1. locals'[t][j] = locals[t][j] /\ buffers'[t][j] = buffers[t][j]
        BY <1>5, <2>2
      <3>2. LocalOK(t, j) /\ (locals[t][j].cap # None => locals[t][j].cap \in Objects)
        BY EntryTypes DEF BuffersInv, LocalsOK, Number
      <3>3. CASE locals[t][j].cap = o
        <4>1. t # s
          BY <1>1, <2>2, <3>3 DEF BuffersInv, DistinctOK, o
        <4> QED BY <1>1, <1>7, <3>1, <3>2, <3>3, <4>1, ConstantFacts DEF LocalOK
      <3>4. CASE locals[t][j].cap # o
        <4>1. locals[t][j].cap # None => vram'[locals[t][j].cap] = vram[locals[t][j].cap]
          BY <1>7, <3>2, <3>4
        <4> QED BY <3>1, <3>2, <4>1 DEF LocalOK
      <3> QED BY <3>3, <3>4
    <2> QED BY <2>1, <2>2
  <1>10. FreshOK'
    BY <1>2, <1>5, NoLocalFields, ConstantFacts DEF BuffersInv, FreshOK
  <1>11. OwnerOK'
    <2> SUFFICES ASSUME NEW p \in Objects, vram'[p] # NoVram
                 PROVE  /\ session'[vram'[p]] = "open" /\ p \in handles'[vram'[p]]
                        /\ \E j \in Ids : locals'[vram'[p]][j].cap = p
      BY DEF OwnerOK
    <2>1. p # o /\ vram'[p] = vram[p] /\ vram[p] \in Clients
      BY <1>7 DEF BuffersInv, BuffersTypeOK
    <2>2. PICK j \in Ids : locals[vram[p]][j].cap = p
      BY <2>1 DEF BuffersInv, OwnerOK
    <2>3. ~(vram[p] = s /\ j = i)
      BY <2>1, <2>2 DEF o
    <2> QED BY <1>2, <1>5, <1>6, <2>1, <2>2, <2>3 DEF BuffersInv, OwnerOK
  <1>12. BuffersOK'
    <2> SUFFICES ASSUME NEW t \in Clients, NEW j \in Ids, buffers'[t][j] # None
                 PROVE  vram'[buffers'[t][j]] \in {t, NoVram}
      BY DEF BuffersOK
    <2>1. buffers'[t][j] = buffers[t][j] /\ buffers[t][j] \in Objects
      BY <1>5, EntryTypes DEF BuffersInv, Number
    <2> QED BY <1>7, <2>1 DEF BuffersInv, BuffersOK
  <1>13. DistinctOK'
    <2> SUFFICES ASSUME NEW t \in Clients, NEW j \in Ids, NEW k \in Ids
          PROVE /\ j # k /\ buffers'[t][j] # None => buffers'[t][j] # buffers'[t][k]
                /\ j # k /\ locals'[t][j].cap # None => locals'[t][j].cap # locals'[t][k].cap
                /\ locals'[t][j].handle # None => locals'[t][j].handle # buffers'[t][k]
      BY DEF DistinctOK
    <2> QED BY <1>5, NoLocalFields DEF BuffersInv, DistinctOK
  <1>14. UnusedOK'
    BY <1>1, <1>2, <1>5, <1>6 DEF BuffersInv, UnusedOK
  <1>15. HandlesOK'
    <2> SUFFICES ASSUME NEW t \in Clients, session[t] = "open"
          PROVE /\ \A j \in Ids :
                     /\ buffers'[t][j] # None => buffers'[t][j] \in handles'[t]
                     /\ locals'[t][j].handle # None => locals'[t][j].handle \in handles'[t]
                /\ t \in refused' \/ \A p \in handles'[t] :
                     \E j \in Ids : buffers'[t][j] = p \/ locals'[t][j].handle = p
      BY <1>2 DEF HandlesOK
    <2>1. \A j \in Ids :
             /\ buffers'[t][j] # None => buffers'[t][j] \in handles'[t]
             /\ locals'[t][j].handle # None => locals'[t][j].handle \in handles'[t]
      <3> SUFFICES ASSUME NEW j \in Ids
             PROVE /\ buffers'[t][j] # None => buffers'[t][j] \in handles'[t]
                   /\ locals'[t][j].handle # None => locals'[t][j].handle \in handles'[t]
        OBVIOUS
      <3>1. /\ buffers[t][j] # None => buffers[t][j] \in handles[t]
            /\ locals[t][j].handle # None => locals[t][j].handle \in handles[t]
        BY DEF BuffersInv, HandlesOK
      <3>2. t = s /\ j # i => buffers[t][j] # o
        BY <1>1 DEF BuffersInv, DistinctOK
      <3>3. t = s /\ locals[t][j].handle # None => locals[t][j].handle # o
        BY <1>1 DEF BuffersInv, DistinctOK
      <3> QED BY <1>5, <1>6, <3>1, <3>2, <3>3, NoLocalFields
    <2>2. ASSUME t \notin refused', NEW p \in handles'[t]
          PROVE  \E j \in Ids : buffers'[t][j] = p \/ locals'[t][j].handle = p
      <3>1. t \notin refused /\ p \in handles[t] /\ (t = s => ~waiting[s] /\ p # o)
        BY <1>4, <1>6, <2>2
      <3>2. PICK j \in Ids : buffers[t][j] = p \/ locals[t][j].handle = p
        BY <3>1 DEF BuffersInv, HandlesOK
      <3>3. p # None
        BY <3>1, ConstantFacts DEF BuffersInv, BuffersTypeOK
      <3>4. ~(t = s /\ j = i)
        BY <1>1, <3>1, <3>2, <3>3
      <3> QED BY <1>5, <3>2, <3>4
    <2> QED BY <2>1, <2>2
  <1>16. IdsComeBack'
    <2> SUFFICES ASSUME NEW t \in Clients, NEW j \in Ids,
                        session[t] = "open", locals'[t][j] = NoLocal, t \notin refused'
                 PROVE  buffers'[t][j] = None
      BY <1>2 DEF IdsComeBack, Contains
    <2> QED BY <1>4, <1>5 DEF BuffersInv, IdsComeBack, Contains
  <1>17. ExportsImportable'
    BY <1>2, <1>3, <1>4, <1>7, <1>8, <1>11, NamesKept DEF BuffersInv, BuffersTypeOK
  <1> QED BY <1>8, <1>9, <1>10, <1>11, <1>12, <1>13, <1>14, <1>15, <1>16, <1>17 DEF BuffersInv

LEMMA UnmapCpuInv ==
    ASSUME BuffersInv, NEW s \in Clients, NEW i \in Ids, UnmapCpu(s, i)
    PROVE  BuffersInv'
  <1> DEFINE h == locals[s][i].handle
  <1>1. session[s] = "open" /\ buffers[s][i] = None
    BY DEF UnmapCpu
  <1>2. UNCHANGED <<session, waiting, buffers, vram, import_name, known, objects>>
    BY DEF UnmapCpu
  <1>3. /\ locals' = [locals EXCEPT ![s][i] = NoLocal]
        /\ handles' = [handles EXCEPT ![s] = IF waiting[s] THEN @ ELSE @ \ {h}]
        /\ named' = named \cap Live(handles')
        /\ refused' = IF waiting[s] /\ h # None THEN refused \cup {s} ELSE refused
    BY DEF UnmapCpu, CloseHandles
  <1>4. \A t \in Clients, j \in Ids :
          locals'[t][j] = IF t = s /\ j = i THEN NoLocal ELSE locals[t][j]
    BY <1>3 DEF BuffersInv, BuffersTypeOK
  <1>5. \A t \in Clients :
          handles'[t] = IF t = s /\ ~waiting[s] THEN handles[s] \ {h} ELSE handles[t]
    BY <1>3 DEF BuffersInv, BuffersTypeOK
  <1>6. h # None => h \in Objects /\ h = locals[s][i].cap /\ vram[h] # s
    BY EntryTypes DEF BuffersInv, LocalsOK, LocalOK, Number
  <1> HIDE DEF h
  <1>7. BuffersTypeOK'
    <2>1. locals' \in [Clients -> [Ids -> Local]]
      BY <1>3, NoLocalFields DEF BuffersInv, BuffersTypeOK, Local, Number
    <2>2. handles' \in [Clients -> SUBSET Objects]
      BY <1>3 DEF BuffersInv, BuffersTypeOK
    <2> QED BY <1>2, <1>3, <2>1, <2>2 DEF BuffersInv, BuffersTypeOK, Local, Number
  <1>8. LocalsOK'
    <2> SUFFICES ASSUME NEW t \in Clients, NEW j \in Ids PROVE LocalOK(t, j)'
      BY DEF LocalsOK
    <2>1. CASE t = s /\ j = i
      BY <1>4, <2>1, NoLocalFields DEF LocalOK
    <2>2. CASE ~(t = s /\ j = i)
      BY <1>2, <1>4, <2>2 DEF BuffersInv, LocalsOK, LocalOK
    <2> QED BY <2>1, <2>2
  <1>9. FreshOK'
    <2>1. \A t \in Clients, j \in Ids : locals'[t][j].cap \in {None, locals[t][j].cap}
      BY <1>4, NoLocalFields
    <2> SUFFICES ASSUME NEW p \in Objects, p > objects
                 PROVE  /\ p \notin known
                        /\ \A t \in Clients, j \in Ids : buffers[t][j] # p /\ locals'[t][j].cap # p
      BY <1>2 DEF FreshOK
    <2>2. /\ p \notin known /\ p # None
          /\ \A t \in Clients, j \in Ids : buffers[t][j] # p /\ locals[t][j].cap # p
      BY ConstantFacts DEF BuffersInv, FreshOK
    <2> QED BY <2>1, <2>2
  <1>10. OwnerOK'
    <2> SUFFICES ASSUME NEW p \in Objects, vram[p] # NoVram
                 PROVE  /\ session[vram[p]] = "open" /\ p \in handles'[vram[p]]
                        /\ \E j \in Ids : locals'[vram[p]][j].cap = p
      BY <1>2 DEF OwnerOK
    <2>1. vram[p] \in Clients /\ p # None
      BY ConstantFacts DEF BuffersInv, BuffersTypeOK
    <2>2. PICK j \in Ids : locals[vram[p]][j].cap = p
      BY <2>1 DEF BuffersInv, OwnerOK
    <2>3. ~(vram[p] = s /\ j = i)
      BY <1>1, <2>1, <2>2 DEF BuffersInv, LocalsOK, LocalOK
    <2>4. vram[p] = s => p # h
      BY <1>6, <2>1
    <2> QED BY <1>4, <1>5, <2>1, <2>2, <2>3, <2>4 DEF BuffersInv, OwnerOK
  <1>11. BuffersOK' /\ DistinctOK'
    <2>1. DistinctOK'
      <3> SUFFICES ASSUME NEW t \in Clients, NEW j \in Ids, NEW k \in Ids
            PROVE /\ j # k /\ buffers[t][j] # None => buffers[t][j] # buffers[t][k]
                  /\ j # k /\ locals'[t][j].cap # None => locals'[t][j].cap # locals'[t][k].cap
                  /\ locals'[t][j].handle # None => locals'[t][j].handle # buffers[t][k]
        BY <1>2 DEF DistinctOK
      <3> QED BY <1>4, NoLocalFields DEF BuffersInv, DistinctOK
    <2> QED BY <1>2, <2>1 DEF BuffersInv, BuffersOK
  <1>12. UnusedOK'
    BY <1>1, <1>2, <1>4, <1>5 DEF BuffersInv, UnusedOK
  <1>13. HandlesOK'
    <2> SUFFICES ASSUME NEW t \in Clients, session[t] = "open"
          PROVE /\ \A j \in Ids :
                     /\ buffers[t][j] # None => buffers[t][j] \in handles'[t]
                     /\ locals'[t][j].handle # None => locals'[t][j].handle \in handles'[t]
                /\ t \in refused' \/ \A p \in handles'[t] :
                     \E j \in Ids : buffers[t][j] = p \/ locals'[t][j].handle = p
      BY <1>2 DEF HandlesOK
    <2>1. \A j \in Ids :
             /\ buffers[t][j] # None => buffers[t][j] \in handles'[t]
             /\ locals'[t][j].handle # None => locals'[t][j].handle \in handles'[t]
      <3> SUFFICES ASSUME NEW j \in Ids
             PROVE /\ buffers[t][j] # None => buffers[t][j] \in handles'[t]
                   /\ locals'[t][j].handle # None => locals'[t][j].handle \in handles'[t]
        OBVIOUS
      <3>1. /\ buffers[t][j] # None => buffers[t][j] \in handles[t]
            /\ locals[t][j].handle # None => locals[t][j].handle \in handles[t]
        BY DEF BuffersInv, HandlesOK
      <3>2. t = s /\ h # None => buffers[t][j] # h
        BY DEF BuffersInv, DistinctOK, h
      <3>3. t = s /\ j # i /\ h # None /\ locals[t][j].handle # None => locals[t][j].handle # h
        <4>1. j # i /\ locals[s][i].cap # None => locals[s][i].cap # locals[s][j].cap
          BY DEF BuffersInv, DistinctOK
        <4>2. locals[s][j].handle \in {None, locals[s][j].cap}
          BY DEF BuffersInv, LocalsOK, LocalOK
        <4> QED BY <1>6, <4>1, <4>2
      <3> QED BY <1>4, <1>5, <3>1, <3>2, <3>3, NoLocalFields
    <2>2. ASSUME t \notin refused', NEW p \in handles'[t]
          PROVE  \E j \in Ids : buffers[t][j] = p \/ locals'[t][j].handle = p
      <3>1. t \notin refused /\ p \in handles[t] /\ (t = s => p # h \/ h = None)
        BY <1>3, <1>5, <2>2
      <3>2. PICK j \in Ids : buffers[t][j] = p \/ locals[t][j].handle = p
        BY <3>1 DEF BuffersInv, HandlesOK
      <3>3. p # None
        BY <3>1, ConstantFacts DEF BuffersInv, BuffersTypeOK
      <3>4. ~(t = s /\ j = i)
        BY <1>1, <3>1, <3>2, <3>3 DEF h
      <3> QED BY <1>4, <3>2, <3>4
    <2> QED BY <2>1, <2>2
  <1>14. IdsComeBack'
    <2> SUFFICES ASSUME NEW t \in Clients, NEW j \in Ids,
                        session[t] = "open", locals'[t][j] = NoLocal, t \notin refused'
                 PROVE  buffers[t][j] = None
      BY <1>2 DEF IdsComeBack, Contains
    <2> QED BY <1>1, <1>3, <1>4 DEF BuffersInv, IdsComeBack, Contains
  <1>15. ExportsImportable'
    BY <1>2, <1>3, <1>7, <1>10, NamesKept DEF BuffersInv, BuffersTypeOK
  <1> QED BY <1>7, <1>8, <1>9, <1>10, <1>11, <1>12, <1>13, <1>14, <1>15 DEF BuffersInv

-----------------------------------------------------------------------------
(* Export and import *)

LEMMA ExportInv ==
    ASSUME BuffersInv, NEW s \in Clients, NEW i \in Ids, ExportVram(s, i)
    PROVE  BuffersInv'
  <1> DEFINE o == locals[s][i].cap
             l == [locals[s][i] EXCEPT !.exported = TRUE]
  <1>1. /\ o \in Objects /\ o # None /\ buffers[s][i] = o /\ vram[o] = s
        /\ session[s] = "open" /\ locals[s][i].handle = None
    <2>1. LocalOK(s, i)
      BY DEF BuffersInv, LocalsOK
    <2>2. o # None /\ buffers[s][i] # None /\ session[s] = "open"
      BY <2>1 DEF ExportVram, Contains, LocalOK
    <2> QED BY <2>1, <2>2, EntryTypes DEF BuffersInv, LocalOK, Number
  <1>2. UNCHANGED <<session, waiting, buffers, vram, handles, objects, refused>>
    BY DEF ExportVram
  <1>3. /\ known' = known \cup {o} /\ named' = named \cup {o}
        /\ import_name' = import_name \cup ({o} \cap {p \in Objects : Managed(p)})
    BY <1>1 DEF ExportVram
  <1>4. l \in Local /\ l.cap = o /\ l.handle = None /\ locals' = [locals EXCEPT ![s][i] = l]
    <2>1. locals[s][i] \in Local
      BY EntryTypes DEF BuffersInv
    <2>2. l \in Local /\ l.cap = o /\ l.handle = None
      BY <1>1, <2>1 DEF Local
    <2>3. locals' = [locals EXCEPT ![s][i] = l]
      BY DEF ExportVram
    <2> QED BY <2>2, <2>3
  <1> HIDE DEF l
  <1>5. \A t \in Clients, j \in Ids :
          locals'[t][j] = IF t = s /\ j = i THEN l ELSE locals[t][j]
    BY <1>4 DEF BuffersInv, BuffersTypeOK
  <1>6. \A t \in Clients, j \in Ids :
          locals'[t][j].cap = locals[t][j].cap /\ locals'[t][j].handle = locals[t][j].handle
    BY <1>1, <1>4, <1>5
  <1> HIDE DEF o
  <1>7. BuffersTypeOK'
    <2>1. locals' \in [Clients -> [Ids -> Local]]
      BY <1>4 DEF BuffersInv, BuffersTypeOK, Local, Number
    <2> QED BY <1>1, <1>2, <1>3, <2>1 DEF BuffersInv, BuffersTypeOK, Local, Number
  <1>8. LocalsOK'
    <2> SUFFICES ASSUME NEW t \in Clients, NEW j \in Ids PROVE LocalOK(t, j)'
      BY DEF LocalsOK
    <2>1. CASE t = s /\ j = i
      BY <1>1, <1>2, <1>4, <1>5, <2>1 DEF LocalOK
    <2>2. CASE ~(t = s /\ j = i)
      BY <1>2, <1>5, <2>2 DEF BuffersInv, LocalsOK, LocalOK
    <2> QED BY <2>1, <2>2
  <1>9. FreshOK'
    <2>1. ~(o > objects)
      BY <1>1 DEF BuffersInv, FreshOK
    <2> QED BY <1>2, <1>3, <1>6, <2>1 DEF BuffersInv, FreshOK
  <1>10. OwnerOK'
    <2>1. \A p \in Objects : vram[p] # NoVram => vram[p] \in Clients
      BY DEF BuffersInv, BuffersTypeOK
    <2> QED BY <1>2, <1>6, <2>1 DEF BuffersInv, OwnerOK
  <1>11. BuffersOK' /\ DistinctOK'
    BY <1>2, <1>6 DEF BuffersInv, BuffersOK, DistinctOK
  <1>12. UnusedOK'
    BY <1>1, <1>2, <1>5 DEF BuffersInv, UnusedOK
  <1>13. HandlesOK'
    BY <1>2, <1>6 DEF BuffersInv, HandlesOK
  <1>14. IdsComeBack'
    <2>1. l # NoLocal
      BY <1>1, <1>4, NoLocalFields
    <2> QED BY <1>2, <1>5, <2>1 DEF BuffersInv, IdsComeBack, Contains
  <1>15. ExportsImportable'
    BY <1>1, <1>2, <1>3 DEF BuffersInv, ExportsImportable, Managed
  <1> QED BY <1>7, <1>8, <1>9, <1>10, <1>11, <1>12, <1>13, <1>14, <1>15 DEF BuffersInv

LEMMA ImportInv ==
    ASSUME BuffersInv, NEW s \in Clients, NEW o \in Objects, NEW i \in Ids, ImportVram(s, o, i)
    PROVE  BuffersInv'
  <1> DEFINE h == IF Importable(s, o) THEN o ELSE None
             l == [locals[s][i] EXCEPT !.cap = o, !.handle = h]
  <1>1. /\ session[s] = "open" /\ o \in known /\ vram[o] # s /\ buffers[s][i] = None
        /\ locals[s][i].handle = None /\ o # None
        /\ \A j \in Ids \ {i} : locals[s][j].cap # o
    BY ConstantFacts DEF ImportVram, MayImport
  <1>2. UNCHANGED <<session, waiting, buffers, vram, import_name, named, known,
                    objects, refused>>
    BY DEF ImportVram
  <1>3. h # None => h = o /\ vram[o] # NoVram
    BY DEF Importable, Managed
  <1>4. /\ l \in Local /\ l.cap = o /\ l.handle = h
        /\ locals' = [locals EXCEPT ![s][i] = l]
    <2>1. locals[s][i] \in Local /\ h \in Number
      BY EntryTypes DEF BuffersInv, Number
    <2>2. locals' = [locals EXCEPT ![s][i] = l]
      BY <2>1 DEF ImportVram, BuffersInv, BuffersTypeOK, Local
    <2> HIDE DEF h
    <2>3. l \in Local /\ l.cap = o /\ l.handle = h
      BY <2>1 DEF Local, Number
    <2> QED BY <2>2, <2>3
  <1>5. ~l.exported
    <2>1. locals[s][i] \in Local /\ ~locals[s][i].exported
      BY <1>1, EntryTypes DEF BuffersInv, LocalsOK, LocalOK
    <2> QED BY <2>1 DEF Local
  <1>6. handles' = [handles EXCEPT ![s] = IF h = None THEN @ ELSE @ \cup {o}]
    BY <1>1 DEF ImportVram, BuffersInv, BuffersTypeOK
  <1> HIDE DEF h, l
  <1>7. \A t \in Clients, j \in Ids :
          locals'[t][j] = IF t = s /\ j = i THEN l ELSE locals[t][j]
    BY <1>4 DEF BuffersInv, BuffersTypeOK
  <1>8. \A t \in Clients :
          handles'[t] = IF t = s /\ h # None THEN handles[s] \cup {o} ELSE handles[t]
    BY <1>6 DEF BuffersInv, BuffersTypeOK
  <1>9. BuffersTypeOK'
    <2>1. locals' \in [Clients -> [Ids -> Local]]
      BY <1>4 DEF BuffersInv, BuffersTypeOK, Local, Number
    <2>2. handles' \in [Clients -> SUBSET Objects]
      BY <1>6 DEF BuffersInv, BuffersTypeOK
    <2> QED BY <1>2, <2>1, <2>2 DEF BuffersInv, BuffersTypeOK, Local, Number
  <1>10. LocalsOK'
    <2> SUFFICES ASSUME NEW t \in Clients, NEW j \in Ids PROVE LocalOK(t, j)'
      BY DEF LocalsOK
    <2>1. CASE t = s /\ j = i
      BY <1>1, <1>2, <1>3, <1>4, <1>5, <1>7, <2>1 DEF LocalOK
    <2>2. CASE ~(t = s /\ j = i)
      BY <1>2, <1>7, <2>2 DEF BuffersInv, LocalsOK, LocalOK
    <2> QED BY <2>1, <2>2
  <1>11. FreshOK'
    <2>1. ~(o > objects)
      BY <1>1 DEF BuffersInv, FreshOK
    <2>2. \A t \in Clients, j \in Ids : locals'[t][j].cap \in {o, locals[t][j].cap}
      BY <1>4, <1>7
    <2> QED BY <1>2, <2>1, <2>2 DEF BuffersInv, FreshOK
  <1>12. OwnerOK'
    <2> SUFFICES ASSUME NEW p \in Objects, vram[p] # NoVram
                 PROVE  /\ session[vram[p]] = "open" /\ p \in handles'[vram[p]]
                        /\ \E j \in Ids : locals'[vram[p]][j].cap = p
      BY <1>2 DEF OwnerOK
    <2>1. vram[p] \in Clients /\ p # None
      BY ConstantFacts DEF BuffersInv, BuffersTypeOK
    <2>2. PICK j \in Ids : locals[vram[p]][j].cap = p
      BY <2>1 DEF BuffersInv, OwnerOK
    <2>3. ~(vram[p] = s /\ j = i)
      BY <1>1, <2>1, <2>2 DEF BuffersInv, LocalsOK, LocalOK
    <2> QED BY <1>7, <1>8, <2>1, <2>2, <2>3 DEF BuffersInv, OwnerOK
  <1>13. BuffersOK' /\ DistinctOK'
    <2>1. h # None => \A k \in Ids : buffers[s][k] # o
      BY <1>1, <1>3 DEF BuffersInv, BuffersOK
    <2>2. DistinctOK'
      <3> SUFFICES ASSUME NEW t \in Clients, NEW j \in Ids, NEW k \in Ids
            PROVE /\ j # k /\ buffers[t][j] # None => buffers[t][j] # buffers[t][k]
                  /\ j # k /\ locals'[t][j].cap # None => locals'[t][j].cap # locals'[t][k].cap
                  /\ locals'[t][j].handle # None => locals'[t][j].handle # buffers[t][k]
        BY <1>2 DEF DistinctOK
      <3>1. j # k /\ locals'[t][j].cap # None => locals'[t][j].cap # locals'[t][k].cap
        BY <1>1, <1>4, <1>7 DEF BuffersInv, DistinctOK
      <3>2. locals'[t][j].handle # None => locals'[t][j].handle # buffers[t][k]
        BY <1>3, <1>4, <1>7, <2>1 DEF BuffersInv, DistinctOK
      <3> QED BY <3>1, <3>2 DEF BuffersInv, DistinctOK
    <2> QED BY <1>2, <2>2 DEF BuffersInv, BuffersOK
  <1>14. UnusedOK'
    BY <1>1, <1>2, <1>7, <1>8 DEF BuffersInv, UnusedOK
  <1>15. HandlesOK'
    <2> SUFFICES ASSUME NEW t \in Clients, session[t] = "open"
          PROVE /\ \A j \in Ids :
                     /\ buffers[t][j] # None => buffers[t][j] \in handles'[t]
                     /\ locals'[t][j].handle # None => locals'[t][j].handle \in handles'[t]
                /\ t \in refused \/ \A p \in handles'[t] :
                     \E j \in Ids : buffers[t][j] = p \/ locals'[t][j].handle = p
      BY <1>2 DEF HandlesOK
    <2>1. \A j \in Ids :
             /\ buffers[t][j] # None => buffers[t][j] \in handles'[t]
             /\ locals'[t][j].handle # None => locals'[t][j].handle \in handles'[t]
      BY <1>3, <1>4, <1>7, <1>8 DEF BuffersInv, HandlesOK
    <2>2. ASSUME t \notin refused, NEW p \in handles'[t]
          PROVE  \E j \in Ids : buffers[t][j] = p \/ locals'[t][j].handle = p
      <3>1. CASE t = s /\ h # None /\ p = o
        BY <1>3, <1>4, <1>7, <3>1
      <3>2. CASE ~(t = s /\ h # None /\ p = o)
        <4>1. p \in handles[t]
          BY <1>8, <2>2, <3>2
        <4>2. PICK j \in Ids : buffers[t][j] = p \/ locals[t][j].handle = p
          BY <2>2, <4>1 DEF BuffersInv, HandlesOK
        <4>3. p # None
          BY <4>1, ConstantFacts DEF BuffersInv, BuffersTypeOK
        <4>4. ~(t = s /\ j = i)
          BY <1>1, <4>2, <4>3
        <4> QED BY <1>7, <4>2, <4>4
      <3> QED BY <3>1, <3>2
    <2> QED BY <2>1, <2>2
  <1>16. IdsComeBack'
    <2>1. l # NoLocal
      BY <1>1, <1>4, NoLocalFields
    <2> QED BY <1>2, <1>7, <2>1 DEF BuffersInv, IdsComeBack, Contains
  <1>17. ExportsImportable'
    BY <1>2 DEF BuffersInv, ExportsImportable, Managed
  <1> QED BY <1>9, <1>10, <1>11, <1>12, <1>13, <1>14, <1>15, <1>16, <1>17 DEF BuffersInv

-----------------------------------------------------------------------------
(* The end of a session *)

LEMMA CloseInv ==
    ASSUME BuffersInv, NEW s \in Clients, CloseSession(s)
    PROVE  BuffersInv'
  <1> DEFINE ids  == {i \in Ids : Owner(s, i)}
             caps == {locals[s][i].cap : i \in ids}
  <1>1. \A p \in Objects : p \in caps <=> vram[p] = s
    <2> SUFFICES ASSUME NEW p \in Objects PROVE p \in caps <=> vram[p] = s
      OBVIOUS
    <2>1. p \in caps => vram[p] = s
      BY DEF Owner
    <2>2. ASSUME vram[p] = s PROVE p \in caps
      <3>1. PICK i \in Ids : locals[s][i].cap = p
        BY <2>2, ConstantFacts DEF BuffersInv, OwnerOK
      <3> QED BY <2>2, <3>1, ConstantFacts DEF Owner, Managed
    <2> QED BY <2>1, <2>2
  <1>2. UNCHANGED <<waiting, known, objects, refused>>
    BY DEF CloseSession
  <1>3. /\ session' = [session EXCEPT ![s] = "closed"] /\ session[s] = "open"
        /\ locals' = [locals EXCEPT ![s] = [i \in Ids |-> NoLocal]]
        /\ handles' = [handles EXCEPT ![s] = @ \ (IF waiting[s] THEN {} ELSE Objects)]
        /\ named' = named \cap Live(handles')
    BY DEF CloseSession, CloseHandles
  <1>4. /\ vram' = [p \in Objects |-> IF p \in caps THEN NoVram ELSE vram[p]]
        /\ import_name' = import_name \ caps
        /\ buffers' = [buffers EXCEPT ![s] =
              [i \in Ids |-> IF i \in (IF waiting[s] THEN {} ELSE ids) THEN None ELSE @[i]]]
    BY DEF CloseSession, Unmapped
  <1> HIDE DEF ids, caps
  <1>5. \A p \in Objects : vram'[p] = IF vram[p] = s THEN NoVram ELSE vram[p]
    BY <1>1, <1>4
  <1>6. \A t \in Clients, j \in Ids :
          /\ locals'[t][j] = IF t = s THEN NoLocal ELSE locals[t][j]
          /\ buffers'[t][j] \in {None, buffers[t][j]}
          /\ t # s => buffers'[t][j] = buffers[t][j]
    BY <1>3, <1>4 DEF BuffersInv, BuffersTypeOK
  <1>7. \A t \in Clients : t # s => handles'[t] = handles[t] /\ session'[t] = session[t]
    BY <1>3 DEF BuffersInv, BuffersTypeOK
  <1>8. session'[s] = "closed"
    BY <1>3 DEF BuffersInv, BuffersTypeOK
  <1>9. BuffersTypeOK'
    <2>1. buffers' \in [Clients -> [Ids -> Objects \cup {None}]]
      BY <1>4 DEF BuffersInv, BuffersTypeOK
    <2>2. locals' \in [Clients -> [Ids -> Local]]
      BY <1>3, NoLocalFields DEF BuffersInv, BuffersTypeOK, Local, Number
    <2>3. vram' \in [Objects -> Clients \cup {NoVram}]
      BY <1>4 DEF BuffersInv, BuffersTypeOK
    <2>4. handles' \in [Clients -> SUBSET Objects]
      BY <1>3 DEF BuffersInv, BuffersTypeOK
    <2>5. session' \in [Clients -> {"none", "open", "closed"}]
      BY <1>3 DEF BuffersInv, BuffersTypeOK
    <2> QED BY <1>2, <1>3, <1>4, <2>1, <2>2, <2>3, <2>4, <2>5
            DEF BuffersInv, BuffersTypeOK, Local, Number
  <1>10. LocalsOK'
    <2> SUFFICES ASSUME NEW t \in Clients, NEW j \in Ids PROVE LocalOK(t, j)'
      BY DEF LocalsOK
    <2>1. CASE t = s
      BY <1>6, <2>1, NoLocalFields DEF LocalOK
    <2>2. CASE t # s
      <3>1. locals'[t][j] = locals[t][j] /\ buffers'[t][j] = buffers[t][j]
        BY <1>6, <2>2
      <3>2. LocalOK(t, j) /\ (locals[t][j].cap # None => locals[t][j].cap \in Objects)
        BY EntryTypes DEF BuffersInv, LocalsOK, Number
      <3>3. locals[t][j].cap # None =>
              (vram'[locals[t][j].cap] = t <=> vram[locals[t][j].cap] = t)
        BY <1>5, <2>2, <3>2, ConstantFacts
      <3> QED BY <3>1, <3>2, <3>3 DEF LocalOK
    <2> QED BY <2>1, <2>2
  <1>11. FreshOK'
    <2>1. \A t \in Clients, j \in Ids : locals'[t][j].cap \in {None, locals[t][j].cap}
      BY <1>6, NoLocalFields
    <2> QED BY <1>2, <1>6, <2>1, ConstantFacts DEF BuffersInv, FreshOK
  <1>12. OwnerOK'
    <2> SUFFICES ASSUME NEW p \in Objects, vram'[p] # NoVram
                 PROVE  /\ session'[vram'[p]] = "open" /\ p \in handles'[vram'[p]]
                        /\ \E j \in Ids : locals'[vram'[p]][j].cap = p
      BY DEF OwnerOK
    <2>1. vram'[p] = vram[p] /\ vram[p] \in Clients /\ vram[p] # s
      BY <1>5 DEF BuffersInv, BuffersTypeOK
    <2> QED BY <1>6, <1>7, <2>1 DEF BuffersInv, OwnerOK
  <1>13. BuffersOK'
    <2> SUFFICES ASSUME NEW t \in Clients, NEW j \in Ids, buffers'[t][j] # None
                 PROVE  vram'[buffers'[t][j]] \in {t, NoVram}
      BY DEF BuffersOK
    <2>1. buffers'[t][j] = buffers[t][j] /\ buffers[t][j] \in Objects
      BY <1>6, EntryTypes DEF BuffersInv, Number
    <2> QED BY <1>5, <2>1 DEF BuffersInv, BuffersOK
  <1>14. DistinctOK'
    <2> SUFFICES ASSUME NEW t \in Clients, NEW j \in Ids, NEW k \in Ids
          PROVE /\ j # k /\ buffers'[t][j] # None => buffers'[t][j] # buffers'[t][k]
                /\ j # k /\ locals'[t][j].cap # None => locals'[t][j].cap # locals'[t][k].cap
                /\ locals'[t][j].handle # None => locals'[t][j].handle # buffers'[t][k]
      BY DEF DistinctOK
    <2> QED BY <1>6, NoLocalFields DEF BuffersInv, DistinctOK
  <1>15. UnusedOK'
    BY <1>6, <1>7, <1>8 DEF BuffersInv, UnusedOK
  <1>16. HandlesOK'
    <2> SUFFICES ASSUME NEW t \in Clients, session'[t] = "open"
          PROVE /\ \A i \in Ids :
                     /\ buffers'[t][i] # None => buffers'[t][i] \in handles'[t]
                     /\ locals'[t][i].handle # None => locals'[t][i].handle \in handles'[t]
                /\ t \in refused' \/ \A o \in handles'[t] :
                     \E i \in Ids : buffers'[t][i] = o \/ locals'[t][i].handle = o
      BY DEF HandlesOK
    <2>1. t # s
      BY <1>8
    <2> QED BY <1>2, <1>6, <1>7, <2>1 DEF BuffersInv, HandlesOK
  <1>17. IdsComeBack'
    BY <1>2, <1>6, <1>7, <1>8 DEF BuffersInv, IdsComeBack, Contains
  <1>18. ExportsImportable'
    BY <1>1, <1>2, <1>3, <1>4, <1>5, <1>9, <1>12, NamesKept DEF BuffersInv, BuffersTypeOK
  <1> QED BY <1>9, <1>10, <1>11, <1>12, <1>13, <1>14, <1>15, <1>16, <1>17, <1>18 DEF BuffersInv

-----------------------------------------------------------------------------

LEMMA NextBuffersInv == BuffersInv /\ [BuffersNext]_bufferVars => BuffersInv'
  <1> SUFFICES ASSUME BuffersInv, [BuffersNext]_bufferVars PROVE BuffersInv'
    OBVIOUS
  <1>1. CASE UNCHANGED bufferVars
    BY <1>1 DEF bufferVars, BuffersInv, BuffersTypeOK, LocalsOK, LocalOK, FreshOK, OwnerOK,
                BuffersOK, DistinctOK, UnusedOK, HandlesOK, IdsComeBack, ExportsImportable,
                Contains, Managed
  <1>2. ASSUME NEW s \in Clients,
               OpenSession(s) \/ BeginWait(s) \/ EndWait(s) \/ CloseSession(s)
        PROVE  BuffersInv'
    BY <1>2, OpenInv, WaitInv, CloseInv
  <1>3. ASSUME NEW s \in Clients, NEW i \in Ids,
               MapGpu(s, i) \/ UnmapGpu(s, i) \/ ExportVram(s, i) \/ UnmapCpu(s, i)
        PROVE  BuffersInv'
    BY <1>3, MapInv, UnmapInv, ExportInv, UnmapCpuInv
  <1>4. ASSUME NEW s \in Clients, NEW i \in Ids, NEW o \in Objects, ImportVram(s, o, i)
        PROVE  BuffersInv'
    BY <1>4, ImportInv
  <1> QED BY <1>1, <1>2, <1>3, <1>4 DEF BuffersNext

(* The invariant that the following theorems rest on: what the tables of   *)
(* the sessions, the Gpu_vrams and the kernel know of each other.          *)
THEOREM TablesAgree == BuffersSpec => []BuffersInv
  BY InitBuffersInv, NextBuffersInv, PTL DEF BuffersSpec

(* However buffers are allocated, passed on and released, and sessions are *)
(* closed, a Gpu_vram leads to an existing Buffer_object of an existing    *)
(* session, and what was exported can be imported while its owner has it.  *)
THEOREM ExportsStayValid == BuffersSpec => []ExportsValid
  <1>1. BuffersInv => ExportsValid
    <2> SUFFICES ASSUME BuffersInv PROVE VramBacked
      BY DEF ExportsValid, BuffersInv
    <2> SUFFICES ASSUME NEW o \in Objects, Managed(o)
                 PROVE  session[vram[o]] = "open" /\ \E i \in Ids : buffers[vram[o]][i] = o
      BY DEF VramBacked
    <2>1. vram[o] \in Clients /\ o # None
      BY DEF Managed, BuffersInv, BuffersTypeOK
    <2>2. PICK i \in Ids : locals[vram[o]][i].cap = o
      BY <2>1 DEF Managed, BuffersInv, OwnerOK
    <2>3. LocalOK(vram[o], i)
      BY <2>1 DEF BuffersInv, LocalsOK
    <2>4. buffers[vram[o]][i] = o
      BY <2>1, <2>2, <2>3 DEF LocalOK
    <2> QED BY <2>4 DEF Managed, BuffersInv, OwnerOK
  <1> QED BY TablesAgree, <1>1, PTL

(* As long as no request of a session was refused, its open handles are    *)
(* those of its tables, and an identifier without Vram_local is free.      *)
THEOREM NothingIsLeaked == BuffersSpec => []NothingLeaks
  <1>1. BuffersInv => NothingLeaks
    <2> SUFFICES ASSUME BuffersInv, NEW s \in Clients, session[s] = "open"
          PROVE LET recorded == ({buffers[s][i] : i \in Ids} \cup {locals[s][i].handle : i \in Ids})
                                  \ {None}
                IN  recorded \subseteq handles[s] /\ (s \in refused \/ recorded = handles[s])
      BY DEF NothingLeaks, HandlesRecorded, BuffersInv
    <2>1. handles[s] \subseteq Objects
      BY DEF BuffersInv, BuffersTypeOK
    <2> QED BY <2>1, ConstantFacts DEF BuffersInv, HandlesOK
  <1> QED BY TablesAgree, <1>1, PTL

================================================================================
