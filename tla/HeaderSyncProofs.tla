-------------------------- MODULE HeaderSyncProofs --------------------------
(***************************************************************************)
(* Proofs about Blockchain and HeaderSync, for every header tree and any    *)
(* number of servers, with at most one fork file at a time (MaxForks <= 1). *)
(***************************************************************************)
EXTENDS HeaderSync, FiniteSetTheorems, SequenceTheorems, TLAPS

Stored == Header \cup {NULL_HEADER}

-----------------------------------------------------------------------------
(* Induction, with sets in the place of predicates.                        *)

\* Induction over the naturals, for a set.
LEMMA SetInduction ==
    ASSUME NEW X, 0 \in X, \A n \in Nat : n \in X => n + 1 \in X
    PROVE  Nat \subseteq X
<1> SUFFICES ASSUME NEW k \in Nat, k \notin X PROVE FALSE
  OBVIOUS
<1> DEFINE R == StrictSubsetOrdering(Nat)
           F == FiniteSubsetsOf(Nat)
           T == {0..n : n \in {m \in Nat : m \notin X}}
<1>1. IsWellFoundedOn(R, F)
  BY FS_StrictSubsetOrderingWellFounded
<1>2. T \subseteq F /\ T # {}
  <2>1. \A n \in Nat : 0..n \in F
    BY FS_Interval DEF FiniteSubsetsOf
  <2>2. QED
    BY <2>1
<1> HIDE DEF R, F, T
<1>3. PICK x \in T : \A y \in T : ~(<<y, x>> \in R)
  BY <1>1, <1>2, WFMin
<1>4. PICK n \in Nat : n \notin X /\ x = 0..n
  BY <1>3 DEF T
<1>5. n # 0 /\ n - 1 \in Nat /\ n - 1 \notin X
  BY <1>4
<1>6. 0..(n - 1) \in T
  BY <1>5 DEF T
<1>7. <<0..(n - 1), x>> \in R
  BY <1>4, <1>5 DEF R, StrictSubsetOrdering
<1>8. QED
  BY <1>3, <1>6, <1>7

-----------------------------------------------------------------------------
(* The store.                                                              *)

\* What write leaves in a file: the first n headers, then the data.
LEMMA WrittenFacts ==
    ASSUME NEW S, NEW s \in Seq(S), NEW d \in Seq(S), NEW n \in 0..Len(s)
    PROVE  /\ SubSeq(s, 1, n) \in Seq(S) /\ Len(SubSeq(s, 1, n)) = n
           /\ SubSeq(s, 1, n) \o d \in Seq(S)
           /\ Len(SubSeq(s, 1, n) \o d) = n + Len(d)
           /\ \A i \in 1..n : (SubSeq(s, 1, n) \o d)[i] = s[i]
           /\ \A i \in 1..Len(d) : (SubSeq(s, 1, n) \o d)[n + i] = d[i]
<1>1. SubSeq(s, 1, n) \in Seq(S) /\ Len(SubSeq(s, 1, n)) = n
  BY SubSeqProperties
<1>2. \A i \in 1..n : SubSeq(s, 1, n)[i] = s[i]
  BY SubSeqProperties
<1> DEFINE p == SubSeq(s, 1, n)
<1> HIDE DEF p
<1>3. p \in Seq(S) /\ Len(p) = n /\ \A i \in 1..n : p[i] = s[i]
  BY <1>1, <1>2 DEF p
<1>4. p \o d \in Seq(S) /\ Len(p \o d) = n + Len(d)
  BY <1>3, ConcatProperties
<1>5. \A i \in 1..n : (p \o d)[i] = s[i]
  BY <1>3, ConcatProperties
<1>6. \A i \in 1..Len(d) : (p \o d)[n + i] = d[i]
  BY <1>3, ConcatProperties
<1>7. QED
  BY <1>3, <1>4, <1>5, <1>6 DEF p

\* The part of a file from position n + 1 on.
LEMMA TailFacts ==
    ASSUME NEW S, NEW s \in Seq(S), NEW n \in 0..Len(s)
    PROVE  /\ SubSeq(s, n + 1, Len(s)) \in Seq(S)
           /\ Len(SubSeq(s, n + 1, Len(s))) = Len(s) - n
           /\ \A i \in 1..(Len(s) - n) : SubSeq(s, n + 1, Len(s))[i] = s[n + i]
  BY SubSeqProperties

\* What was written is what is read back.
LEMMA SplicedTail ==
    ASSUME NEW S, NEW s \in Seq(S), NEW d \in Seq(S), NEW n \in 0..Len(s)
    PROVE  LET w == SubSeq(s, 1, n) \o d
           IN  SubSeq(w, n + 1, Len(w)) = d
<1> DEFINE w == SubSeq(s, 1, n) \o d
           t == SubSeq(w, n + 1, Len(w))
<1>1. /\ w \in Seq(S) /\ Len(w) = n + Len(d) /\ Len(d) \in Nat
      /\ \A i \in 1..Len(d) : w[n + i] = d[i]
  BY WrittenFacts, LenProperties, SMTT(60)
<1> HIDE DEF w
<1>2. n \in 0..Len(w) /\ Len(w) - n = Len(d)
  BY <1>1
<1>3. t \in Seq(S) /\ Len(t) = Len(d) /\ \A i \in 1..Len(d) : t[i] = w[n + i]
  BY <1>1, <1>2, TailFacts
<1> HIDE DEF t
<1>4. t = d
  BY <1>1, <1>3, SeqEqual
<1>5. QED
  BY <1>4 DEF t, w

\* The object of a file, and the file of an object.
LEMMA BaseFacts ==
    ASSUME TypeOK, NEW o \in Live
    PROVE  base_height(o) \in Base /\ blockchains[base_height(o)] = o
  BY DEF TypeOK, Live, base_height

\* An object has one base height.
LEMMA BaseOf ==
    ASSUME TypeOK, NEW b \in Base
    PROVE  blockchains[b] \in Live /\ base_height(blockchains[b]) = b
  BY DEF TypeOK, Live, base_height

\* What two files hold together, said of the number of headers.
LEMMA StoreTypes ==
    ASSUME StoreInv
    PROVE  /\ ROOT = 0 /\ ROOT \in Base /\ parent[ROOT] \in Base
           /\ VERIFICATION_BLOCK_HEIGHT \in Nat \ {0}
           /\ \A b \in Base : file[b] \in Seq(Stored) /\ Len(file[b]) \in Nat
           /\ \A b \in Base \ {ROOT} : b \in Nat \ {0} /\ parent[b] = ROOT
  BY HeaderAssumption, LenProperties DEF StoreInv, TypeOK, Stored, ROOT

\* The first state: the root file with its sparse part.
LEMMA StoreInit == Init => StoreInv
<1> SUFFICES ASSUME Init PROVE StoreInv
  OBVIOUS
<1> DEFINE n == VERIFICATION_BLOCK_HEIGHT + 1
           sparse == [i \in 1..n |-> NULL_HEADER]
<1>1. n \in Nat /\ VERIFICATION_BLOCK_HEIGHT \in Nat
  BY HeaderAssumption
<1> HIDE DEF n
<1>2. sparse \in Seq(Stored) /\ Len(sparse) = n
  <2>1. sparse \in [1..n -> Stored]
    BY DEF Stored
  <2>2. QED
    BY <1>1, <2>1
<1> HIDE DEF sparse
<1>3. /\ file = [b \in {ROOT} |-> sparse] /\ Base = {ROOT}
      /\ parent = [b \in {ROOT} |-> ROOT] /\ swapping = NoSwap /\ crashes = 0
  BY DEF Init, sparse, n, Base
<1>4. PICK o \in Chain : blockchains = [b \in {ROOT} |-> o]
  BY DEF Init
<1>5. TypeOK
  BY <1>2, <1>3, <1>4, HeaderAssumption DEF TypeOK, Stored, ROOT
<1>6. Len(file[ROOT]) > VERIFICATION_BLOCK_HEIGHT
  BY <1>1, <1>2, <1>3 DEF n
<1>7. QED
  BY <1>1, <1>2, <1>3, <1>5, <1>6 DEF StoreInv, RootIsLongest, ExchangeInv, top, ROOT

\* A write that appends to a file, as seen by the length of the file.
LEMMA StoreSave ==
    ASSUME StoreInv, swapping = NoSwap, NEW b \in Base, NEW data \in Seq(Header),
           NEW off \in 0..Len(file[b]), b = ROOT => off = Len(file[b]),
           Save(written(b, data, off), b)
    PROVE  StoreInv'
<1> DEFINE w == SubSeq(file[b], 1, off) \o data
<1>1. file[b] \in Seq(Stored) /\ data \in Seq(Stored)
  <2>1. Seq(Header) \subseteq Seq(Stored)
    BY DEF Stored
  <2>2. QED
    BY <2>1, StoreTypes
<1>2. w \in Seq(Stored) /\ Len(w) = off + Len(data) /\ Len(data) \in Nat /\ Len(w) \in Nat
  BY <1>1, WrittenFacts, LenProperties, StoreTypes
<1> HIDE DEF w
<1>3. /\ file' = [file EXCEPT ![b] = w] /\ UNCHANGED <<parent, blockchains, crashes>>
      /\ swapping' = swap_with_parent([file EXCEPT ![b] = w], b)
  BY DEF Save, written, w
<1>4. file \in [Base -> Seq(Stored)]
  BY DEF StoreInv, TypeOK, Stored
<1>5. Base' = Base /\ file' \in [Base -> Seq(Stored)] /\ file'[b] = w
      /\ \A c \in Base \ {b} : file'[c] = file[c]
  BY <1>2, <1>3, <1>4 DEF Base
<1>6. TypeOK' /\ (\A c \in Base' \ {ROOT} : Base' = {ROOT, c})
  <2>1. swapping' = NoSwap \/ swapping'.base \in Base \ {ROOT}
    BY <1>3 DEF swap_with_parent
  <2>2. QED
    BY <1>3, <1>5, <2>1 DEF StoreInv, TypeOK, Stored
<1>7. CASE b = ROOT
  <2>1. swapping' = NoSwap /\ Len(file'[ROOT]) >= Len(file[ROOT])
    BY <1>2, <1>3, <1>5, <1>7, StoreTypes DEF swap_with_parent
  <2>2. RootIsLongest'
    <3> SUFFICES ASSUME crashes = 0, NEW c \in Base PROVE top(file, c)' <= top(file, ROOT)'
      BY <1>3, <1>5 DEF RootIsLongest
    <3>1. top(file, c) <= top(file, ROOT)
      BY DEF StoreInv, RootIsLongest
    <3>2. CASE c = ROOT
      BY <3>2, <1>2, <1>5, <1>7 DEF top, ROOT
    <3>3. CASE c # ROOT
      BY <3>1, <3>3, <2>1, <1>2, <1>5, <1>7, StoreTypes DEF top
    <3>4. QED
      BY <3>2, <3>3
  <2>3. /\ Len(file'[ROOT]) > VERIFICATION_BLOCK_HEIGHT
        /\ \A c \in Base \ {ROOT} : c > VERIFICATION_BLOCK_HEIGHT /\ Len(file'[ROOT]) >= c
    BY <2>1, <1>2, <1>5, <1>7, StoreTypes DEF StoreInv
  <2>4. QED
    BY <1>5, <1>6, <2>1, <2>2, <2>3 DEF StoreInv, ExchangeInv
<1>8. CASE b # ROOT
  <2> DEFINE n == Len(file[ROOT])
             d == SubSeq(file[ROOT], b + 1, n)
  <2>1. /\ b \in Nat \ {0} /\ n \in Nat /\ parent[b] = ROOT /\ ROOT = 0 /\ n >= b
        /\ file[ROOT] \in Seq(Stored) /\ file'[ROOT] = file[ROOT] /\ Base = {ROOT, b}
    BY <1>5, <1>8, StoreTypes DEF StoreInv
  <2>2. d \in Seq(Stored) /\ Len(d) = n - b
    BY <2>1, TailFacts
  <2>3. swapping' = IF n - b >= Len(w) THEN NoSwap
                    ELSE [base |-> b, my_data |-> w, parent_data |-> d, step |-> "read"]
    <3>1. /\ [file EXCEPT ![b] = w][ROOT] = file[ROOT]
          /\ [file EXCEPT ![b] = w][b] = w
      BY <1>4, <1>8, <2>1
    <3>2. top([file EXCEPT ![b] = w], ROOT) - b + 1 = n - b
      BY <3>1, <2>1 DEF top
    <3>3. b - ROOT + 1 = b + 1
      BY <2>1
    <3>4. QED
      BY <1>3, <1>8, <2>1, <3>1, <3>2, <3>3 DEF swap_with_parent
  <2> HIDE DEF d
  <2>4. CASE n - b >= Len(w)
    <3>1. swapping' = NoSwap
      BY <2>3, <2>4
    <3>2. RootIsLongest'
      BY <1>2, <1>5, <2>1, <2>4 DEF RootIsLongest, top
    <3>3. QED
      BY <1>5, <1>6, <2>1, <3>1, <3>2 DEF StoreInv, ExchangeInv
  <2>5. CASE n - b < Len(w)
    <3>1. swapping' = [base |-> b, my_data |-> w, parent_data |-> d, step |-> "read"]
      BY <1>2, <2>1, <2>3, <2>5
    <3>2. swapping' \in Exchange
      BY <3>1, <2>1, <2>2, <1>2 DEF Exchange, Stored
    <3>3. swapping' # NoSwap
      BY <3>2, HeaderAssumption
    <3>4. ExchangeInv'
      BY <1>5, <2>1, <2>2, <2>5, <3>1, <3>2 DEF ExchangeInv, d
    <3>5. QED
      BY <1>5, <1>6, <2>1, <3>3, <3>4 DEF StoreInv, RootIsLongest
  <2>6. QED
    BY <1>2, <2>1, <2>4, <2>5
<1>9. QED
  BY <1>7, <1>8

\* A single header on top of a chain.
LEMMA StoreSaveHeader ==
    ASSUME StoreInv, NEW o \in Live, NEW h \in Header, save_header(o, h)
    PROVE  StoreInv'
<1> DEFINE b == base_height(o)
<1>1. TypeOK /\ b \in Base /\ swapping = NoSwap
  BY BaseFacts DEF StoreInv, save_header
<1>2. b \in Nat /\ Len(file[b]) \in Nat /\ Height[h] \in Nat
  BY <1>1, StoreTypes, HeaderAssumption DEF TypeOK
<1>3. Height[h] - b = Len(file[b])
  BY <1>2 DEF save_header, can_connect, height, top
<1>4. Save(written(b, <<h>>, Len(file[b])), b)
  BY <1>3 DEF save_header
<1>5. <<h>> \in Seq(Header)
  OBVIOUS
<1>6. Len(file[b]) \in 0..Len(file[b])
  BY <1>2
<1> HIDE DEF b
<1>7. QED
  BY <1>1, <1>4, <1>5, <1>6, StoreSave

\* A chunk on top of a chain.
LEMMA StoreChunk ==
    ASSUME StoreInv, NEW o \in Live, NEW data \in Chunks, connect_chunk(o, data)
    PROVE  StoreInv'
<1> DEFINE b == base_height(o)
<1>1. TypeOK /\ b \in Base /\ swapping = NoSwap /\ data \in Seq(Header) /\ data # <<>>
  BY BaseFacts, HeaderAssumption DEF StoreInv, connect_chunk
<1>2. b \in Nat /\ Len(file[b]) \in Nat
  BY <1>1, StoreTypes DEF TypeOK
<1>3. Height[data[1]] - b = Len(file[b])
  <2>1. Height[data[1]] = b + Len(file[b]) - 1 + 1
    BY DEF connect_chunk, height, top
  <2>2. QED
    BY <1>2, <2>1
<1>4. Save(written(b, data, Len(file[b])), b)
  BY <1>3 DEF connect_chunk
<1>5. Len(file[b]) \in 0..Len(file[b])
  BY <1>2
<1> HIDE DEF b
<1>6. QED
  BY <1>1, <1>4, <1>5, StoreSave

\* The fork file is started again.
LEMMA StoreReplace ==
    ASSUME StoreInv, NEW o \in Live, NEW h \in Header, replace(o, h)
    PROVE  StoreInv'
<1>1. /\ swapping = NoSwap /\ Height[h] \in Base /\ Height[h] > VERIFICATION_BLOCK_HEIGHT
      /\ Save(written(Height[h], <<h>>, 0), Height[h])
  BY DEF replace, replaceable
<1>2. Height[h] # ROOT
  BY <1>1, HeaderAssumption DEF ROOT
<1>3. 0 \in 0..Len(file[Height[h]])
  BY <1>1, StoreTypes
<1>4. <<h>> \in Seq(Header)
  OBVIOUS
<1>5. QED
  BY <1>1, <1>2, <1>3, <1>4, StoreSave

\* A fork file is made: there was none, so it leaves the root's chain.
LEMMA StoreNewFile ==
    ASSUME StoreInv, MaxForks <= 1, swapping = NoSwap, NEW o \in Live, NEW b \in Nat \ Base,
           Cardinality(Base) <= MaxForks, height(o) >= b, b > VERIFICATION_BLOCK_HEIGHT,
           NEW data \in Seq(Header), Len(data) <= 1, new_file(o, b, data),
           swapping' = NoSwap, crashes' \in 0..MaxCrashes
    PROVE  /\ StoreInv' /\ Base' = {ROOT, b} /\ parent' = [c \in {ROOT, b} |-> ROOT]
           /\ blockchains'[b] \in Chain \ Live /\ blockchains'[ROOT] = blockchains[ROOT]
           /\ file'[ROOT] = file[ROOT] /\ file'[b] = data
<1>1. Base = {ROOT}
  <2>1. CASE Base \ {ROOT} = {}
    BY <2>1, StoreTypes
  <2>2. ASSUME NEW c \in Base \ {ROOT} PROVE FALSE
    <3>1. Base = {ROOT} \cup {c}
      BY DEF StoreInv
    <3>2. IsFiniteSet({ROOT}) /\ Cardinality({ROOT}) = 1
      BY FS_Singleton
    <3>3. Cardinality({ROOT} \cup {c}) = 1 + 1
      BY <3>2, FS_AddElement
    <3>4. MaxForks \in Nat
      BY HeaderAssumption
    <3>5. Cardinality(Base) = 1 + 1
      BY <3>1, <3>3, Zenon
    <3>6. QED
      BY <3>4, <3>5
  <2>3. QED
    BY <2>1, <2>2
<1>2. base_height(o) = ROOT
  BY <1>1, BaseFacts DEF StoreInv
<1>3. PICK new \in Chain \ {blockchains[c] : c \in Base} :
         /\ file' = [c \in {ROOT, b} |-> IF c = b THEN data ELSE file[c]]
         /\ parent' = [c \in {ROOT, b} |-> IF c = b THEN ROOT ELSE parent[c]]
         /\ blockchains' = [c \in {ROOT, b} |-> IF c = b THEN new ELSE blockchains[c]]
  <2>1. Base \cup {b} = {ROOT, b}
    BY <1>1
  <2>2. QED
    BY <1>2, <2>1 DEF new_file
<1>4. /\ file[ROOT] \in Seq(Stored) /\ data \in Seq(Stored) /\ ROOT = 0 /\ b # ROOT
      /\ Len(file[ROOT]) \in Nat /\ Len(data) \in Nat /\ parent[ROOT] = ROOT
  <2>1. Seq(Header) \subseteq Seq(Stored)
    BY DEF Stored
  <2>2. parent[ROOT] \in Base
    BY StoreTypes
  <2>3. QED
    BY <1>1, <2>1, <2>2, StoreTypes, LenProperties
<1>5. Base' = {ROOT, b} /\ file' \in [Base' -> Seq(Stored)] /\ file'[ROOT] = file[ROOT] /\ file'[b] = data
  BY <1>3, <1>4 DEF Base
<1>6. TypeOK'
  <2>1. parent' \in [Base' -> Base'] /\ parent'[b] = ROOT
    BY <1>3, <1>4, <1>5
  <2>2. /\ blockchains' \in [Base' -> Chain]
        /\ \A c, d \in Base' : blockchains'[c] = blockchains'[d] => c = d
    <3>1. blockchains[ROOT] \in Chain /\ blockchains[ROOT] # new
      BY <1>1, <1>3 DEF StoreInv, TypeOK
    <3>2. QED
      BY <1>3, <1>4, <1>5, <3>1
  <2>3. QED
    BY <1>4, <1>5, <2>1, <2>2 DEF TypeOK, Stored, ROOT
<1>7. Len(file[ROOT]) - 1 >= b
  BY <1>2, <1>4 DEF height, top
<1>8. /\ \A c \in Base' \ {ROOT} : Base' = {ROOT, c}
      /\ \A c \in Base' \ {ROOT} : c > VERIFICATION_BLOCK_HEIGHT /\ Len(file'[ROOT]) >= c
      /\ Len(file'[ROOT]) > VERIFICATION_BLOCK_HEIGHT
  BY <1>4, <1>5, <1>7, HeaderAssumption DEF StoreInv
<1>9. RootIsLongest'
  BY <1>4, <1>5, <1>7 DEF RootIsLongest, top
<1>10. blockchains'[b] \in Chain \ Live /\ blockchains'[ROOT] = blockchains[ROOT]
  BY <1>3, <1>4 DEF Live
<1>11. parent' = [c \in {ROOT, b} |-> ROOT]
  BY <1>3, <1>4
<1>12. QED
  BY <1>5, <1>6, <1>8, <1>9, <1>10, <1>11 DEF StoreInv, ExchangeInv

\* fork: the file and its first header.
LEMMA StoreFork ==
    ASSUME StoreInv, MaxForks <= 1, NEW o \in Live, NEW h \in Header, fork(o, h)
    PROVE  StoreInv'
<1>1. /\ swapping = NoSwap /\ Height[h] > VERIFICATION_BLOCK_HEIGHT /\ Height[h] \in Nat \ Base
      /\ Cardinality(Base) <= MaxForks /\ height(o) >= Height[h]
      /\ new_file(o, Height[h], <<h>>) /\ swapping' = NoSwap /\ crashes' = crashes
  BY HeaderAssumption DEF fork, branches
<1>2. <<h>> \in Seq(Header) /\ Len(<<h>>) <= 1 /\ crashes' \in 0..MaxCrashes
  BY <1>1 DEF StoreInv, TypeOK
<1>3. QED
  BY <1>1, <1>2, StoreNewFile

\* A proven chunk changes no length.
LEMMA StoreProof ==
    ASSUME StoreInv, NEW b \in 0..VERIFICATION_BLOCK_HEIGHT, NEW e \in 0..VERIFICATION_BLOCK_HEIGHT,
           connect_proof(b, e)
    PROVE  StoreInv'
<1> DEFINE n == Len(file[ROOT])
           w == [i \in DOMAIN file[ROOT] |-> IF i - 1 \in b..e THEN Trunk[i] ELSE file[ROOT][i]]
<1>1. /\ n \in Nat /\ file[ROOT] \in Seq(Stored) /\ DOMAIN file[ROOT] = 1..n
      /\ \A i \in 1..n : file[ROOT][i] \in Stored
  BY StoreTypes, LenProperties, ElementOfSeq
<1>2. \A i \in 1..(VERIFICATION_BLOCK_HEIGHT + 1) : Trunk[i] \in Stored
  BY HeaderAssumption DEF Stored
<1>3. \A i \in 1..n : i - 1 \in b..e => i \in 1..(VERIFICATION_BLOCK_HEIGHT + 1)
  BY StoreTypes
<1>4. w \in [1..n -> Stored]
  BY <1>1, <1>2, <1>3
<1>5. w \in Seq(Stored) /\ Len(w) = n
  BY <1>1, <1>4
<1> HIDE DEF w
<1>6. file \in [Base -> Seq(Stored)] /\ ROOT \in Base
  BY StoreTypes DEF StoreInv, TypeOK, Stored
<1>7. file' = [file EXCEPT ![ROOT] = w] /\ UNCHANGED <<parent, blockchains, swapping, crashes>> /\ swapping = NoSwap
  BY DEF connect_proof, w
<1>8. /\ Base' = Base /\ file' \in [Base -> Seq(Stored)]
      /\ \A c \in Base : Len(file'[c]) = Len(file[c])
  BY <1>5, <1>6, <1>7 DEF Base
<1>9. TypeOK'
  BY <1>7, <1>8 DEF StoreInv, TypeOK, Stored
<1>10. RootIsLongest'
  BY <1>6, <1>7, <1>8 DEF StoreInv, RootIsLongest, top
<1>11. QED
  BY <1>6, <1>7, <1>8, <1>9, <1>10 DEF StoreInv, ExchangeInv

\* What an exchange under way says of the files.
LEMMA ExchangeFacts ==
    ASSUME StoreInv, swapping # NoSwap
    PROVE  /\ swapping \in Exchange /\ swapping.base \in Base \ {ROOT}
           /\ Base = {ROOT, swapping.base} /\ parent[swapping.base] = ROOT
           /\ swapping.base \in Nat \ {0} /\ swapping.base > VERIFICATION_BLOCK_HEIGHT
           /\ Len(file[ROOT]) \in Nat /\ Len(file[ROOT]) >= swapping.base
           /\ swapping.my_data \in Seq(Stored) /\ swapping.parent_data \in Seq(Stored)
           /\ Len(swapping.my_data) \in Nat /\ Len(swapping.parent_data) \in Nat
           /\ Len(swapping.my_data) > Len(swapping.parent_data)
<1>1. swapping \in Exchange /\ swapping.base \in Base /\ Len(swapping.my_data) > Len(swapping.parent_data)
  BY DEF StoreInv, ExchangeInv
<1>2. swapping.base \in Nat \ {0} /\ swapping.my_data \in Seq(Stored) /\ swapping.parent_data \in Seq(Stored)
  BY <1>1 DEF Exchange, Stored, ROOT
<1>3. swapping.base \in Base \ {ROOT}
  BY <1>1, <1>2 DEF ROOT
<1>4. QED
  BY <1>1, <1>2, <1>3, StoreTypes, LenProperties DEF StoreInv

\* The fork's file gets what the parent's had.
LEMMA StoreWriteSelf ==
    ASSUME StoreInv, write_self
    PROVE  StoreInv'
<1> DEFINE b == swapping.base
<1>1. swapping # NoSwap /\ swapping.step = "read"
  BY DEF write_self
<1>2. /\ file' = [file EXCEPT ![b] = swapping.parent_data]
      /\ swapping' = [swapping EXCEPT !.step = "self"]
      /\ UNCHANGED <<parent, blockchains, crashes>>
  BY DEF write_self
<1>3. file \in [Base -> Seq(Stored)]
  BY DEF StoreInv, TypeOK, Stored
<1>4. /\ Base' = Base /\ file' \in [Base -> Seq(Stored)] /\ file'[ROOT] = file[ROOT]
      /\ file'[b] = swapping.parent_data
  BY <1>1, <1>2, <1>3, ExchangeFacts DEF Base
<1>5. /\ swapping' \in Exchange /\ swapping'.base = b /\ swapping'.my_data = swapping.my_data
      /\ swapping'.parent_data = swapping.parent_data /\ swapping'.step = "self"
  BY <1>1, <1>2, ExchangeFacts DEF Exchange
<1>6. swapping' # NoSwap
  BY <1>5, HeaderAssumption
<1>7. ExchangeInv'
  <2>1. SubSeq(file[ROOT], b + 1, Len(file[ROOT])) = swapping.parent_data
    BY <1>1 DEF StoreInv, ExchangeInv
  <2>2. QED
    BY <1>1, <1>4, <1>5, <2>1, ExchangeFacts DEF ExchangeInv
<1>8. TypeOK'
  BY <1>1, <1>2, <1>4, <1>5, ExchangeFacts DEF StoreInv, TypeOK, Stored
<1>9. QED
  BY <1>2, <1>4, <1>6, <1>7, <1>8 DEF StoreInv, RootIsLongest

\* The parent's file gets the longer branch.
LEMMA StoreWriteParent ==
    ASSUME StoreInv, write_parent
    PROVE  StoreInv'
<1> DEFINE b == swapping.base
           w == SubSeq(file[ROOT], 1, b) \o swapping.my_data
<1>1. swapping # NoSwap /\ swapping.step = "self"
  BY DEF write_parent
<1>2. file \in [Base -> Seq(Stored)] /\ ROOT \in Base /\ ROOT = 0 /\ file[ROOT] \in Seq(Stored)
  BY StoreTypes DEF StoreInv, TypeOK, Stored
<1>3. /\ file' = [file EXCEPT ![ROOT] = w]
      /\ swapping' = [swapping EXCEPT !.step = "both"]
      /\ UNCHANGED <<parent, blockchains, crashes>>
  <2>1. parent[b] = ROOT /\ b - ROOT = b
    BY <1>1, <1>2, ExchangeFacts
  <2>2. QED
    BY <2>1 DEF write_parent, written
<1>4. b \in 0..Len(file[ROOT]) /\ swapping.my_data \in Seq(Stored)
  BY <1>1, ExchangeFacts
<1>5. /\ w \in Seq(Stored) /\ Len(w) = b + Len(swapping.my_data)
      /\ SubSeq(w, b + 1, Len(w)) = swapping.my_data
  <2>1. w \in Seq(Stored) /\ Len(w) = b + Len(swapping.my_data)
    BY <1>2, <1>4, WrittenFacts
  <2>2. SubSeq(w, b + 1, Len(w)) = swapping.my_data
    BY <1>2, <1>4, SplicedTail, Zenon
  <2>3. QED
    BY <2>1, <2>2
<1> HIDE DEF w
<1>6. /\ Base' = Base /\ file' \in [Base -> Seq(Stored)] /\ file'[ROOT] = w
      /\ file'[b] = file[b] /\ Len(file'[ROOT]) >= b /\ b > VERIFICATION_BLOCK_HEIGHT
  BY <1>1, <1>2, <1>3, <1>5, ExchangeFacts DEF Base
<1>7. /\ swapping' \in Exchange /\ swapping'.base = b /\ swapping'.my_data = swapping.my_data
      /\ swapping'.parent_data = swapping.parent_data /\ swapping'.step = "both"
  BY <1>1, <1>3, ExchangeFacts DEF Exchange
<1>8. swapping' # NoSwap
  BY <1>7, HeaderAssumption
<1>9. ExchangeInv'
  <2>1. file[b] = swapping.parent_data
    BY <1>1 DEF StoreInv, ExchangeInv
  <2>2. QED
    BY <1>1, <1>5, <1>6, <1>7, <2>1, ExchangeFacts DEF ExchangeInv
<1>10. TypeOK'
  BY <1>1, <1>3, <1>6, <1>7, ExchangeFacts DEF StoreInv, TypeOK, Stored
<1>11. /\ Len(file'[ROOT]) > VERIFICATION_BLOCK_HEIGHT
       /\ \A c \in Base' \ {ROOT} : c > VERIFICATION_BLOCK_HEIGHT /\ Len(file'[ROOT]) >= c
  <2>1. Base = {ROOT, b} /\ VERIFICATION_BLOCK_HEIGHT \in Nat /\ b \in Nat /\ Len(file'[ROOT]) \in Nat
    BY <1>1, <1>6, ExchangeFacts, StoreTypes, LenProperties
  <2>2. QED
    BY <1>6, <2>1
<1>12. QED
  BY <1>3, <1>6, <1>8, <1>9, <1>10, <1>11 DEF StoreInv, RootIsLongest

\* The two objects trade their base heights.
LEMMA StoreSwapPointers ==
    ASSUME StoreInv, swap_pointers
    PROVE  StoreInv'
<1> DEFINE b == swapping.base
<1>1. swapping # NoSwap /\ swapping.step = "both"
  BY DEF swap_pointers
<1>2. /\ blockchains' = [blockchains EXCEPT ![b] = blockchains[ROOT], ![ROOT] = blockchains[b]]
      /\ swapping' = NoSwap /\ UNCHANGED <<file, parent, crashes>>
  BY <1>1, ExchangeFacts DEF swap_pointers
<1>3. blockchains \in [Base -> Chain] /\ b \in Base \ {ROOT} /\ ROOT \in Base
  BY <1>1, ExchangeFacts DEF StoreInv, TypeOK
<1>4. /\ blockchains' \in [Base -> Chain]
      /\ \A c, d \in Base : blockchains'[c] = blockchains'[d] => c = d
  <2>1. \A c, d \in Base : blockchains[c] = blockchains[d] => c = d
    BY DEF StoreInv, TypeOK
  <2>2. Base = {ROOT, b}
    BY <1>1, ExchangeFacts
  <2>3. blockchains' \in [Base -> Chain] /\ blockchains'[b] = blockchains[ROOT] /\ blockchains'[ROOT] = blockchains[b]
    BY <1>2, <1>3
  <2>4. QED
    BY <1>3, <2>1, <2>2, <2>3
<1>5. TypeOK'
  BY <1>2, <1>4 DEF StoreInv, TypeOK, Base
<1>6. RootIsLongest'
  <2>1. top(file, b) <= top(file, ROOT)
    <3> DEFINE n == Len(file[ROOT])
    <3>1. file[b] = swapping.parent_data /\ SubSeq(file[ROOT], b + 1, n) = swapping.my_data
      BY <1>1 DEF StoreInv, ExchangeInv
    <3>2. Len(SubSeq(file[ROOT], b + 1, n)) = n - b
      BY <1>1, ExchangeFacts, StoreTypes, TailFacts
    <3>3. n - b > Len(file[b])
      BY <1>1, <3>1, <3>2, ExchangeFacts
    <3>4. QED
      BY <1>1, <3>1, <3>3, ExchangeFacts DEF top, ROOT
  <2>2. \A c \in Base : top(file, c) <= top(file, ROOT)
    BY <1>1, <2>1, ExchangeFacts DEF top, ROOT
  <2>3. QED
    BY <1>2, <2>2 DEF RootIsLongest, Base, top
<1>7. QED
  BY <1>2, <1>5, <1>6 DEF StoreInv, ExchangeInv, Base

\* A write to the fork's file, or to the root's from the fork's base on, that is
\* cut short leaves no gap either.
LEMMA StoreDisk ==
    ASSUME StoreInv, NEW f \in on_disk
    PROVE  /\ f \in [Base -> Seq(Stored)]
           /\ Len(f[ROOT]) > VERIFICATION_BLOCK_HEIGHT
           /\ \A b \in Base \ {ROOT} : Len(f[ROOT]) >= b
<1>1. file \in [Base -> Seq(Stored)] /\ ROOT \in Base /\ ROOT = 0 /\ VERIFICATION_BLOCK_HEIGHT \in Nat
  BY StoreTypes DEF StoreInv, TypeOK, Stored
<1>2. CASE f = file
  BY <1>1, <1>2 DEF StoreInv
<1>3. CASE f # file
  <2> DEFINE b == swapping.base
  <2>1. swapping # NoSwap
    BY <1>3 DEF on_disk
  <2>2. /\ parent[b] = ROOT /\ b - ROOT = b /\ Base = {ROOT, b} /\ b \in Base \ {ROOT}
        /\ b \in Nat \ {0} /\ b > VERIFICATION_BLOCK_HEIGHT
    BY <1>1, <2>1, ExchangeFacts
  <2>3. \/ \E d \in torn(swapping.parent_data) : f = written(b, d, 0)
        \/ \E d \in torn(swapping.my_data) : f = written(ROOT, d, b)
    BY <1>3, <2>1, <2>2 DEF on_disk
  <2>4. ASSUME NEW data \in Seq(Stored), NEW d \in torn(data) PROVE d \in Seq(Stored) /\ Len(d) \in Nat
    <3>1. PICK n \in 0..Len(data) : d = SubSeq(data, 1, n)
      BY DEF torn
    <3>2. QED
      BY <3>1, WrittenFacts, LenProperties
  <2>5. CASE \E d \in torn(swapping.parent_data) : f = written(b, d, 0)
    <3>1. PICK d \in torn(swapping.parent_data) : f = [file EXCEPT ![b] = SubSeq(file[b], 1, 0) \o d]
      BY <2>5 DEF written
    <3>2. SubSeq(file[b], 1, 0) \o d \in Seq(Stored)
      <4>1. d \in Seq(Stored) /\ file[b] \in Seq(Stored) /\ 0 \in 0..Len(file[b])
        BY <2>1, <2>2, <2>4, ExchangeFacts, StoreTypes
      <4>2. QED
        BY <4>1, WrittenFacts
    <3>3. f \in [Base -> Seq(Stored)] /\ f[ROOT] = file[ROOT]
      BY <1>1, <2>2, <3>1, <3>2
    <3>4. QED
      BY <3>3 DEF StoreInv
  <2>6. CASE \E d \in torn(swapping.my_data) : f = written(ROOT, d, b)
    <3>1. PICK d \in torn(swapping.my_data) : f = [file EXCEPT ![ROOT] = SubSeq(file[ROOT], 1, b) \o d]
      BY <2>6 DEF written
    <3> DEFINE w == SubSeq(file[ROOT], 1, b) \o d
    <3>2. w \in Seq(Stored) /\ Len(w) = b + Len(d) /\ Len(d) \in Nat
      <4>1. /\ d \in Seq(Stored) /\ Len(d) \in Nat
            /\ file[ROOT] \in Seq(Stored) /\ b \in 0..Len(file[ROOT])
        BY <2>1, <2>2, <2>4, ExchangeFacts, StoreTypes
      <4>2. QED
        BY <4>1, WrittenFacts
    <3> HIDE DEF w
    <3>3. f \in [Base -> Seq(Stored)] /\ f[ROOT] = w
      BY <1>1, <2>2, <3>1, <3>2 DEF w
    <3>4. QED
      BY <1>1, <2>2, <3>2, <3>3
  <2>7. QED
    BY <2>3, <2>5, <2>6
<1>4. QED
  BY <1>2, <1>3

\* After a crash the files are read again: nothing is under way.
LEMMA StoreCrash ==
    ASSUME StoreInv, read_blockchains, UNCHANGED <<parent, blockchains>>,
           file' \in [Base -> Seq(Stored)], Len(file'[ROOT]) > VERIFICATION_BLOCK_HEIGHT,
           \A b \in Base \ {ROOT} : Len(file'[ROOT]) >= b
    PROVE  StoreInv'
<1>1. crashes' = crashes + 1 /\ crashes' \in 0..MaxCrashes /\ crashes' # 0 /\ swapping' = NoSwap
  BY HeaderAssumption DEF read_blockchains, StoreInv, TypeOK
<1>2. Base' = Base
  BY DEF Base
<1>3. QED
  BY <1>1, <1>2 DEF StoreInv, TypeOK, RootIsLongest, ExchangeInv, Stored

\* A crash that leaves the new fork file empty.
LEMMA StoreCrashInFork ==
    ASSUME StoreInv, MaxForks <= 1, NEW o \in Live, NEW h \in Header, crash_in_fork(o, h)
    PROVE  StoreInv'
<1>1. /\ swapping = NoSwap /\ Height[h] > VERIFICATION_BLOCK_HEIGHT /\ Height[h] \in Nat \ Base
      /\ Cardinality(Base) <= MaxForks /\ height(o) >= Height[h]
      /\ new_file(o, Height[h], <<>>) /\ swapping' = NoSwap /\ crashes' = crashes + 1 /\ crashes < MaxCrashes
  BY HeaderAssumption DEF crash_in_fork, branches, read_blockchains
<1>2. <<>> \in Seq(Header) /\ Len(<<>>) <= 1 /\ crashes' \in 0..MaxCrashes
  BY <1>1, HeaderAssumption DEF StoreInv, TypeOK
<1>3. QED
  BY <1>1, <1>2, StoreNewFile

\* A crash that leaves the fork file emptied.
LEMMA StoreCrashInReplace ==
    ASSUME StoreInv, NEW o \in Live, NEW h \in Header, crash_in_replace(o, h)
    PROVE  StoreInv'
<1> DEFINE b == Height[h]
           w == SubSeq(file[b], 1, 0) \o <<>>
<1>1. b \in Base \ {ROOT}
  BY HeaderAssumption DEF crash_in_replace, replaceable, ROOT
<1>2. file \in [Base -> Seq(Stored)]
  BY DEF StoreInv, TypeOK, Stored
<1>3. w \in Seq(Stored)
  <2>1. file[b] \in Seq(Stored) /\ 0 \in 0..Len(file[b]) /\ <<>> \in Seq(Stored)
    BY <1>1, StoreTypes
  <2>2. QED
    BY <2>1, WrittenFacts
<1>4. file' = [file EXCEPT ![b] = w] /\ read_blockchains /\ UNCHANGED <<parent, blockchains>>
  BY DEF crash_in_replace, written
<1> HIDE DEF w
<1>5. file' \in [Base -> Seq(Stored)] /\ file'[ROOT] = file[ROOT]
  BY <1>1, <1>2, <1>3, <1>4
<1>6. QED
  BY <1>4, <1>5, StoreCrash DEF StoreInv

\* Every step of the store preserves StoreInv.
LEMMA StoreStep ==
    ASSUME MaxForks <= 1, StoreInv, [Next]_vars
    PROVE  StoreInv'
<1>1. CASE \E o \in Live, h \in Header : save_header(o, h) \/ fork(o, h) \/ replace(o, h)
  BY <1>1, StoreSaveHeader, StoreFork, StoreReplace
<1>2. CASE \E o \in Live, data \in Chunks : connect_chunk(o, data)
  BY <1>2, StoreChunk
<1>3. CASE \E b, e \in 0..VERIFICATION_BLOCK_HEIGHT : connect_proof(b, e)
  BY <1>3, StoreProof
<1>4. CASE write_self \/ write_parent \/ swap_pointers
  BY <1>4, StoreWriteSelf, StoreWriteParent, StoreSwapPointers
<1>5. CASE crash
  <2>1. read_blockchains /\ file' \in on_disk /\ UNCHANGED <<parent, blockchains>>
    BY <1>5 DEF crash
  <2>2. QED
    BY <2>1, StoreDisk, StoreCrash
<1>6. CASE \E o \in Live, h \in Header : crash_in_fork(o, h) \/ crash_in_replace(o, h)
  BY <1>6, StoreCrashInFork, StoreCrashInReplace
<1>7. CASE UNCHANGED vars
  BY <1>7 DEF StoreInv, TypeOK, RootIsLongest, ExchangeInv, Base, top, vars
<1>8. QED
  BY <1>1, <1>2, <1>3, <1>4, <1>5, <1>6, <1>7 DEF Next

\* With one fork file, whatever is saved and wherever the program is killed,
\* the fork hangs on the root's chain above the checkpoint and an exchange
\* under way has both branches.
THEOREM StoreAlways ==
    ASSUME MaxForks <= 1
    PROVE  Spec => []StoreInv
<1>1. StoreInv /\ [Next]_vars => StoreInv'
  BY StoreStep
<1>2. QED
  BY <1>1, StoreInit, PTL DEF Spec

\* Files, names and objects stay paired however often fork and root trade
\* places and wherever this is interrupted.
THEOREM StoreTyped ==
    ASSUME MaxForks <= 1
    PROVE  Spec => []TypeOK
<1>1. StoreInv => TypeOK
  BY DEF StoreInv
<1>2. QED
  BY <1>1, StoreAlways, PTL

\* Without a crash the root file has the longest chain whenever no exchange is
\* under way: one comparison after each write (swap_with_parent) is enough.
THEOREM RootKeepsLongest ==
    ASSUME MaxForks <= 1
    PROVE  Spec => []RootIsLongest
<1>1. StoreInv => RootIsLongest
  BY DEF StoreInv
<1>2. QED
  BY <1>1, StoreAlways, PTL

-----------------------------------------------------------------------------
(* Headers and heights.                                                    *)

\* The tree has a highest header.
LEMMA HighestHeader == \E m \in Header : \A h \in Header : Height[h] <= Height[m]
<1> DEFINE R == StrictSubsetOrdering(Header)
           F == FiniteSubsetsOf(Header)
           T == {U \in F : U # {} /\ ~\E m \in U : \A h \in U : Height[h] <= Height[m]}
<1>1. IsWellFoundedOn(R, F)
  BY FS_StrictSubsetOrderingWellFounded
<1>2. Header \in F /\ Header # {} /\ \A h \in Header : Height[h] \in Nat
  BY ServerAssumption, HeaderAssumption DEF FiniteSubsetsOf
<1> HIDE DEF R, F
<1>3. SUFFICES ASSUME T # {} PROVE FALSE
  BY <1>2
<1>4. PICK U \in T : \A V \in T : ~(<<V, U>> \in R)
  <2>1. T \subseteq F
    OBVIOUS
  <2> HIDE DEF T
  <2>2. QED
    BY <1>1, <1>3, <2>1, WFMin
<1>5. PICK x \in U : TRUE
  BY <1>4
<1> DEFINE V == U \ {x}
<1>6. U \subseteq Header /\ V \in F
  BY <1>4, FS_Subset DEF F, FiniteSubsetsOf
<1>7. <<V, U>> \in R
  BY <1>5, <1>6 DEF R, StrictSubsetOrdering
<1>8. V = {} \/ \E m \in V : \A h \in V : Height[h] <= Height[m]
  BY <1>4, <1>6, <1>7
<1>9. \E m \in U : \A h \in U : Height[h] <= Height[m]
  <2>1. CASE V = {}
    <3>1. \A h \in U : h = x
      BY <2>1
    <3>2. QED
      BY <1>2, <1>5, <1>6, <3>1
  <2>2. CASE \E m \in V : \A h \in V : Height[h] <= Height[m]
    <3>1. PICK m \in V : \A h \in V : Height[h] <= Height[m]
      BY <2>2
    <3>2. CASE Height[x] <= Height[m]
      BY <3>1, <3>2
    <3>3. CASE ~(Height[x] <= Height[m])
      <4>1. \A h \in U : Height[h] <= Height[x]
        BY <1>2, <1>5, <1>6, <3>1, <3>3
      <4>2. QED
        BY <1>5, <4>1
    <3>4. QED
      BY <3>2, <3>3
  <2>3. QED
    BY <1>8, <2>1, <2>2
<1>10. QED
  BY <1>4, <1>9

\* MaxHeight bounds every height.
LEMMA MaxHeightFacts ==
    /\ MaxHeight \in Nat
    /\ \A h \in Header : Height[h] \in 0..MaxHeight
    /\ VBH \in 1..MaxHeight
<1>1. PICK m \in Header : \A h \in Header : Height[h] <= Height[m]
  BY HighestHeader
<1>2. \A h \in Header : Height[h] \in Nat
  BY HeaderAssumption
<1> DEFINE S == {Height[h] : h \in Header}
<1>3. \E x \in S : \A y \in S : x >= y
  BY <1>1, <1>2
<1>4. MaxHeight \in S /\ \A y \in S : MaxHeight >= y
  BY <1>3 DEF MaxHeight, Max
<1>5. QED
  BY <1>2, <1>4, HeaderAssumption DEF VBH, VERIFICATION_BLOCK_HEIGHT

\* The larger and the smaller of two numbers.
LEMMA MaxMin ==
    ASSUME NEW a \in Int, NEW b \in Int
    PROVE  /\ Max({a, b}) = IF a <= b THEN b ELSE a
           /\ Min({a, b}) = IF a <= b THEN a ELSE b
<1>1. Max({a, b}) \in {a, b} /\ \A y \in {a, b} : Max({a, b}) >= y
  <2>1. \E x \in {a, b} : \A y \in {a, b} : x >= y
    OBVIOUS
  <2>2. QED
    BY <2>1 DEF Max
<1>2. Min({a, b}) \in {a, b} /\ \A y \in {a, b} : Min({a, b}) <= y
  <2>1. \E x \in {a, b} : \A y \in {a, b} : x <= y
    OBVIOUS
  <2>2. QED
    BY <2>1 DEF Min
<1>3. QED
  BY <1>1, <1>2

\* Every header but the first is one above its predecessor.
LEMMA HeightFacts ==
    /\ \A h \in Header : Height[h] \in Nat /\ (Height[h] > 0 => h # Genesis)
    /\ \A h \in Header \ {Genesis} : Prev[h] \in Header /\ Height[h] = Height[Prev[h]] + 1 /\ Height[h] > 0
<1>1. /\ Height \in [Header -> Nat] /\ Height[Genesis] = 0 /\ Prev \in [Header \ {Genesis} -> Header]
      /\ \A h \in Header \ {Genesis} : Height[h] = Height[Prev[h]] + 1
  BY HeaderAssumption
<1>2. \A h \in Header \ {Genesis} : Prev[h] \in Header /\ Height[Prev[h]] \in Nat
  BY <1>1
<1>3. QED
  BY <1>1, <1>2

\* The chain that ends with h has one header at every height up to h's.
LEMMA AtFacts ==
    ASSUME NEW h \in Header
    PROVE  /\ at(h, Height[h]) = h
           /\ \A n \in 0..Height[h] : at(h, n) \in Header /\ Height[at(h, n)] = n
           /\ \A n \in 0..(Height[h] - 1) : at(h, n) = Prev[at(h, n + 1)]
<1> DEFINE H == Height[h]
           Path(d) == {g \in [(H - d)..H -> Header] :
                          /\ g[H] = h
                          /\ \A k \in (H - d)..H : Height[g[k]] = k
                          /\ \A k \in (H - d)..(H - 1) : g[k] = Prev[g[k + 1]]}
           X == {d \in Nat : d <= H => Path(d) # {}}
<1>1. H \in Nat
  BY HeightFacts
<1> HIDE DEF H
<1>2. 0 \in X
  <2> DEFINE g == [k \in (H - 0)..H |-> h]
  <2>1. g \in Path(0)
    BY <1>1 DEF H
  <2>2. QED
    BY <2>1
<1>3. ASSUME NEW d \in Nat, d \in X PROVE d + 1 \in X
  <2> SUFFICES ASSUME d + 1 <= H PROVE Path(d + 1) # {}
    OBVIOUS
  <2>1. PICK g \in Path(d) : TRUE
    BY <1>1, <1>3
  <2> DEFINE e == H - (d + 1)
             q == [k \in e..H |-> IF k = e THEN Prev[g[e + 1]] ELSE g[k]]
  <2>2. e \in Nat /\ e < H /\ e + 1 = H - d /\ H - d \in (H - d)..H
    BY <1>1
  <2> HIDE DEF e
  <2>3. g[e + 1] \in Header /\ Height[g[e + 1]] = e + 1
    BY <2>1, <2>2
  <2>4. Prev[g[e + 1]] \in Header /\ Height[Prev[g[e + 1]]] = e
    BY <2>2, <2>3, HeightFacts
  <2>5. \A k \in e..H : k # e => k \in (H - d)..H
    BY <1>1, <2>2
  <2>6. q \in [e..H -> Header] /\ q[H] = h
    BY <1>1, <2>1, <2>2, <2>4, <2>5
  <2>7. \A k \in e..H : Height[q[k]] = k
    BY <2>1, <2>4, <2>5
  <2>8. \A k \in e..(H - 1) : q[k] = Prev[q[k + 1]]
    <3> SUFFICES ASSUME NEW k \in e..(H - 1) PROVE q[k] = Prev[q[k + 1]]
      OBVIOUS
    <3>1. k + 1 \in e..H /\ k + 1 # e /\ k \in e..H
      BY <1>1, <2>2
    <3>2. CASE k = e
      BY <3>1, <3>2
    <3>3. CASE k # e
      <4>1. k \in (H - d)..(H - 1)
        BY <1>1, <2>2, <3>3
      <4>2. QED
        BY <2>1, <3>1, <3>3, <4>1
    <3>4. QED
      BY <3>2, <3>3
  <2>9. QED
    BY <2>6, <2>7, <2>8 DEF e
<1>4. H \in X
  <2> HIDE DEF X
  <2>1. Nat \subseteq X
    BY <1>2, <1>3, SetInduction
  <2>2. QED
    BY <1>1, <2>1
<1>5. PICK g \in Path(H) : TRUE
  BY <1>1, <1>4
<1>6. /\ g \in [0..H -> Header] /\ g[H] = h
      /\ \A k \in 0..H : Height[g[k]] = k
      /\ \A k \in 0..(H - 1) : g[k] = Prev[g[k + 1]]
  <2>1. H - H = 0
    BY <1>1
  <2>2. QED
    BY <1>5, <2>1
<1> HIDE DEF X, Path
<1> DEFINE f[k \in 0..H] == IF k = H THEN h ELSE Prev[f[k + 1]]
<1>7. g = [k \in 0..H |-> IF k = H THEN h ELSE Prev[g[k + 1]]]
  BY <1>1, <1>6
<1>8. f = [k \in 0..H |-> IF k = H THEN h ELSE Prev[f[k + 1]]]
  BY <1>7, Zenon DEF f
<1> HIDE DEF f
<1>9. \A k \in 0..H : f[k] = g[k]
  <2> DEFINE Y == {d \in Nat : d <= H => f[H - d] = g[H - d]}
  <2>1. 0 \in Y
    BY <1>1, <1>6, <1>8
  <2>2. ASSUME NEW d \in Nat, d \in Y PROVE d + 1 \in Y
    <3> SUFFICES ASSUME d + 1 <= H PROVE f[H - (d + 1)] = g[H - (d + 1)]
      OBVIOUS
    <3>1. f[H - d] = g[H - d]
      BY <1>1, <2>2
    <3>2. H - (d + 1) \in 0..(H - 1) /\ (H - (d + 1)) + 1 = H - d
      BY <1>1
    <3>3. f[H - (d + 1)] = Prev[f[H - d]]
      BY <1>1, <1>8, <3>2
    <3>4. g[H - (d + 1)] = Prev[g[H - d]]
      BY <1>6, <3>2
    <3>5. QED
      BY <3>1, <3>3, <3>4
  <2>3. Nat \subseteq Y
    <3> HIDE DEF Y
    <3>1. QED
      BY <2>1, <2>2, SetInduction
  <2> SUFFICES ASSUME NEW k \in 0..H PROVE f[k] = g[k]
    OBVIOUS
  <2>4. H - k \in Nat /\ H - k <= H /\ H - (H - k) = k
    BY <1>1
  <2>5. H - k \in Y
    BY <2>3, <2>4
  <2>6. QED
    BY <2>4, <2>5
<1>10. \A n : at(h, n) = f[n]
  BY DEF at, f, H
<1>11. \A n \in 0..H : at(h, n) = g[n]
  BY <1>9, <1>10
<1>12. \A n \in 0..(H - 1) : n \in 0..H /\ n + 1 \in 0..H
  BY <1>1
<1>13. QED
  BY <1>1, <1>6, <1>11, <1>12 DEF H

\* A chain cut at a lower header is that header's.
LEMMA AtInside ==
    ASSUME NEW h \in Header, NEW n \in 0..Height[h], NEW m \in 0..n
    PROVE  at(at(h, n), m) = at(h, m)
<1> DEFINE k == at(h, n)
           Y == {d \in Nat : d <= n => at(k, n - d) = at(h, n - d)}
<1>1. /\ Height[h] \in Nat /\ n \in Nat /\ m \in Nat /\ k \in Header /\ Height[k] = n
      /\ at(k, n) = k
  <2>1. Height[h] \in Nat /\ k \in Header /\ Height[k] = n
    BY HeightFacts, AtFacts
  <2>2. at(k, Height[k]) = k
    BY <2>1, AtFacts
  <2>3. QED
    BY <2>1, <2>2
<1>2. \A i \in 0..(n - 1) : at(k, i) = Prev[at(k, i + 1)] /\ at(h, i) = Prev[at(h, i + 1)]
  <2>1. \A i \in 0..(Height[k] - 1) : at(k, i) = Prev[at(k, i + 1)]
    BY <1>1, AtFacts
  <2>2. \A i \in 0..(Height[h] - 1) : at(h, i) = Prev[at(h, i + 1)]
    BY AtFacts
  <2>3. QED
    BY <1>1, <2>1, <2>2
<1>3. 0 \in Y
  BY <1>1
<1>4. ASSUME NEW d \in Nat, d \in Y PROVE d + 1 \in Y
  <2> SUFFICES ASSUME d + 1 <= n PROVE at(k, n - (d + 1)) = at(h, n - (d + 1))
    OBVIOUS
  <2>1. at(k, n - d) = at(h, n - d)
    BY <1>1, <1>4
  <2>2. n - (d + 1) \in 0..(n - 1) /\ (n - (d + 1)) + 1 = n - d
    BY <1>1
  <2> HIDE DEF k
  <2>3. QED
    BY <1>2, <2>1, <2>2
<1> HIDE DEF Y
<1>5. n - m \in Y
  BY <1>1, <1>3, <1>4, SetInduction
<1>6. n - m <= n /\ n - (n - m) = m
  BY <1>1
<1> HIDE DEF k
<1>7. at(k, m) = at(h, m)
  BY <1>5, <1>6 DEF Y
<1>8. QED
  BY <1>7 DEF k

-----------------------------------------------------------------------------
(* Who catches up a chain.  This needs nothing of the store.               *)

Modes == Searching \cup {"down", "verification", "default"}
Marks == {Nobody} \cup ({"server", "interface"} \X Server)

HeldInv == mode \in [Server -> Modes] /\ catch_up \in [Chain -> Marks] /\ CatchUpHeld

\* An open connection goes on in another mode, and may mark a chain.
LEMMA HeldStep ==
    ASSUME HeldInv, NEW s \in Server, NEW m \in Modes \ {"down"}, mode' = [mode EXCEPT ![s] = m],
           \/ catch_up' = catch_up
           \/ \E c, x : /\ x \in {Nobody, <<"interface", s>>, <<"server", s>>}
                        /\ catch_up' = [catch_up EXCEPT ![c] = x]
    PROVE  HeldInv'
<1>1. mode' \in [Server -> Modes] /\ mode'[s] # "down" /\ \A u \in Server \ {s} : mode'[u] = mode[u]
  BY DEF HeldInv
<1>2. catch_up \in [Chain -> Marks]
  BY DEF HeldInv
<1>3. CASE catch_up' = catch_up
  BY <1>1, <1>3 DEF HeldInv, CatchUpHeld
<1>4. ASSUME NEW c, NEW x, x \in {Nobody, <<"interface", s>>, <<"server", s>>},
             catch_up' = [catch_up EXCEPT ![c] = x]
      PROVE  HeldInv'
  <2>1. x \in Marks /\ \A u \in Server : x = <<"server", u>> => u = s
    BY <1>4, ServerAssumption DEF Marks
  <2>2. catch_up' \in [Chain -> Marks] /\ \A d \in Chain : catch_up'[d] = catch_up[d] \/ catch_up'[d] = x
    BY <1>2, <1>4, <2>1
  <2>3. CatchUpHeld'
    BY <1>1, <2>1, <2>2 DEF HeldInv, CatchUpHeld
  <2>4. QED
    BY <1>1, <2>2, <2>3 DEF HeldInv
<1>5. QED
  BY <1>3, <1>4

\* The mode stays as it is, and at most a mark is taken away.
LEMMA HeldSame ==
    ASSUME HeldInv, NEW s \in Server, mode' = mode \/ mode' = [mode EXCEPT ![s] = mode[s]],
           catch_up' = catch_up \/ \E c : catch_up' = [catch_up EXCEPT ![c] = Nobody]
    PROVE  HeldInv'
<1>1. mode' = mode
  BY DEF HeldInv
<1>2. catch_up' \in [Chain -> Marks] /\ \A d \in Chain : catch_up'[d] = catch_up[d] \/ catch_up'[d] = Nobody
  BY DEF HeldInv, Marks
<1>3. \A u \in Server : Nobody # <<"server", u>>
  BY ServerAssumption
<1>4. QED
  BY <1>1, <1>2, <1>3 DEF HeldInv, CatchUpHeld

\* A connection that is closed takes its marks along.
LEMMA HeldDown ==
    ASSUME HeldInv, NEW s \in Server, connection_down(s)
    PROVE  HeldInv'
<1>1. /\ mode' = [mode EXCEPT ![s] = "down"]
      /\ catch_up' = [c \in Chain |-> IF catch_up[c] = <<"server", s>> THEN Nobody ELSE catch_up[c]]
  BY DEF connection_down, Go, released
<1>2. mode' \in [Server -> Modes] /\ \A u \in Server \ {s} : mode'[u] = mode[u]
  BY <1>1 DEF HeldInv, Modes
<1>3. catch_up' \in [Chain -> Marks]
  BY <1>1 DEF HeldInv, Marks
<1>4. \A u \in Server : Nobody # <<"server", u>>
  BY ServerAssumption
<1>5. ASSUME NEW c \in Chain, NEW u \in Server, catch_up'[c] = <<"server", u>>
      PROVE  u # s /\ catch_up[c] = <<"server", u>>
  <2>1. catch_up'[c] = IF catch_up[c] = <<"server", s>> THEN Nobody ELSE catch_up[c]
    BY <1>1
  <2>2. QED
    BY <1>4, <1>5, <2>1
<1>6. QED
  BY <1>2, <1>3, <1>5 DEF HeldInv, CatchUpHeld

\* A tip that is processed.
LEMMA HeldTip ==
    ASSUME HeldInv, NEW s \in Server, NEW h, NEW R, _process_latest_tip(s, h, R)
    PROVE  HeldInv'
<1>1. \E m \in Modes \ {"down"} :
        /\ mode' = [mode EXCEPT ![s] = m]
        /\ catch_up' = catch_up \/ \E c : catch_up' = [catch_up EXCEPT ![c] = <<"interface", s>>]
  BY DEF _process_latest_tip, known_tip, next_tip, start_search, initial_catch_up, already_catching_up,
         Go, Modes, Searching
<1>2. QED
  BY <1>1, HeldStep

\* The answer to a request for a header.
LEMMA HeldHeader ==
    ASSUME HeldInv, NEW s \in Server, NEW n, on_header(s, n)
    PROVE  HeldInv'
<1> DEFINE g == at(served[s], n)
<1>1. {"default", "backward", "binary", "catch_up"} \subseteq Modes \ {"down"}
  BY DEF Modes, Searching
<1>2. CASE backward(s, n, g)
  <2>1. \E m \in {"backward", "binary"} : mode' = [mode EXCEPT ![s] = m] /\ catch_up' = catch_up
    BY <1>2 DEF backward, Go
  <2>2. QED
    BY <1>1, <2>1, HeldStep
<1>3. CASE binary(s, n, g)
  <2>1. PICK o, G, B : \/ connection_down(s)
                       \/ narrow(s, n, G, B) \/ joining(s, n, B) \/ reorg(s, n, g, B)
                       \/ conflict(s, n, g, B) \/ new_chain(s, n, o, G, B)
                       \/ catching_up(s, n, o, G, B) \/ left_alone(s, n, o, G, B)
    BY <1>3, Zenon DEF binary
  <2>2. CASE connection_down(s)
    BY <2>2, HeldDown
  <2>3. CASE narrow(s, n, G, B) \/ joining(s, n, B) \/ reorg(s, n, g, B) \/ left_alone(s, n, o, G, B)
    <3>1. \E m \in {"binary", "default"} : mode' = [mode EXCEPT ![s] = m] /\ catch_up' = catch_up
      BY <2>3 DEF narrow, joining, reorg, left_alone, Go
    <3>2. QED
      BY <1>1, <3>1, HeldStep
  <2>4. CASE conflict(s, n, g, B) \/ new_chain(s, n, o, G, B) \/ catching_up(s, n, o, G, B)
    <3>1. /\ mode' = [mode EXCEPT ![s] = "catch_up"]
          /\ \E c : catch_up' = [catch_up EXCEPT ![c] = <<"server", s>>]
      BY <2>4 DEF conflict, new_chain, catching_up, Go
    <3>2. QED
      BY <1>1, <3>1, HeldStep
  <2>5. QED
    BY <2>1, <2>2, <2>3, <2>4
<1>4. CASE catches_up(s, n, g)
  <2>1. \E m \in {"catch_up", "default", "backward"} :
           /\ mode' = [mode EXCEPT ![s] = m]
           /\ catch_up' = catch_up \/ \E c : catch_up' = [catch_up EXCEPT ![c] = Nobody]
    BY <1>4 DEF catches_up, Go
  <2>2. QED
    BY <1>1, <2>1, HeldStep
<1>5. QED
  BY <1>2, <1>3, <1>4 DEF on_header

\* The end of a chunk.
LEMMA HeldMore ==
    ASSUME HeldInv, NEW s \in Server, NEW R, NEW e, NEW h, more(s, R, e, h)
    PROVE  HeldInv'
<1>1. CASE h < Height[tip[s]]
  <2>1. mode' = [mode EXCEPT ![s] = mode[s]] /\ catch_up' = catch_up
    BY <1>1 DEF more, Go
  <2>2. QED
    BY <2>1, HeldSame
<1>2. CASE ~(h < Height[tip[s]])
  <2>1. mode' = [mode EXCEPT ![s] = "default"] /\ catch_up' = [catch_up EXCEPT ![on[s]] = Nobody]
    BY <1>2 DEF more, Go
  <2>2. "default" \in Modes \ {"down"}
    BY DEF Modes
  <2>3. QED
    BY <2>1, <2>2, HeldStep
<1>3. QED
  BY <1>1, <1>2

\* Every step keeps HeldInv.
LEMMA HeldNext == HeldInv /\ [SyncNext]_syncVars => HeldInv'
<1> SUFFICES ASSUME HeldInv, [SyncNext]_syncVars PROVE HeldInv'
  OBVIOUS
<1>1. {"default", "verification"} \subseteq Modes \ {"down"}
  BY DEF Modes
<1>2. ASSUME NEW s \in Server, new_interface(s) \/ \E n : ignored(s, n) PROVE HeldInv'
  <2>1. \E m \in {"default", "verification"} : mode' = [mode EXCEPT ![s] = m] /\ catch_up' = catch_up
    BY <1>2 DEF new_interface, ignored, Go
  <2>2. QED
    BY <1>1, <2>1, HeldStep
<1>3. ASSUME NEW s \in Server, lost(s) \/ behind(s) \/ \E n : beyond_tip(s, n) \/ unproven(s, n) PROVE HeldInv'
  BY <1>3, HeldDown DEF lost, behind, beyond_tip, unproven
<1>4. ASSUME NEW s \in Server, NEW n, on_block_headers(s, n) PROVE HeldInv'
  <2>1. \/ connection_down(s)
        \/ \E R : Go(s, mode[s], R) /\ UNCHANGED catch_up
        \/ \E R, e, h : more(s, R, e, h)
    BY <1>4, Zenon DEF on_block_headers
  <2>2. ASSUME NEW R, Go(s, mode[s], R), UNCHANGED catch_up PROVE HeldInv'
    BY <2>2, HeldSame DEF Go
  <2>3. QED
    BY <2>1, <2>2, HeldDown, HeldMore
<1>5. ASSUME NEW s \in Server, on_proof(s) PROVE HeldInv'
  <2>1. \/ connection_down(s)
        \/ \E h, R : _process_latest_tip(s, h, R)
        \/ \E R, e, h : more(s, R, e, h)
    BY <1>5, Zenon DEF on_proof
  <2>2. QED
    BY <2>1, HeldDown, HeldMore, HeldTip
<1>6. ASSUME NEW s \in Server, NEW h \in Header, on_notify_header(s, h) PROVE HeldInv'
  <2>1. \/ mode' = [mode EXCEPT ![s] = "verification"] /\ catch_up' = catch_up
        \/ \E R : _process_latest_tip(s, h, R)
        \/ mode' = mode /\ catch_up' = catch_up
    BY <1>6, Zenon DEF on_notify_header, Go
  <2>2. QED
    BY <1>1, <2>1, HeldStep, HeldTip, HeldSame
<1>7. CASE Swap \/ UNCHANGED syncVars
  <2>1. UNCHANGED <<mode, catch_up>>
    BY <1>7 DEF Swap, syncVars, ifaceVars
  <2>2. QED
    BY <2>1 DEF HeldInv, CatchUpHeld
<1>8. QED
  BY <1>2, <1>3, <1>4, <1>5, <1>6, <1>7, HeldHeader DEF SyncNext, Answer

\* A chain is never left marked with the server of a closed connection,
\* whatever the store looks like: connection_down releases what the server was
\* catching up, and only an open connection marks a chain with its server.
THEOREM CatchUpIsHeld == SyncSpec => []CatchUpHeld
<1>1. SyncInit => HeldInv
  BY ServerAssumption DEF SyncInit, HeldInv, CatchUpHeld, Modes, Marks
<1>2. HeldInv => CatchUpHeld
  BY DEF HeldInv
<1>3. QED
  BY <1>1, <1>2, HeldNext, PTL DEF SyncSpec

-----------------------------------------------------------------------------
(* Reading a store with at most one fork.                                  *)

TrunkKept == \A i \in 1..Len(Trunk) : file[ROOT][i] = Trunk[i]

\* A header below a fork's base is the root's.
LEMMA OwnerFacts ==
    ASSUME StoreInv, NEW b \in Base, NEW h \in Nat
    PROVE  owner(b, h) = IF h >= b THEN b ELSE ROOT
<1> DEFINE own[s \in Base] == IF h >= s THEN s ELSE own[parent[s]]
           g == [s \in Base |-> IF h >= s THEN s ELSE ROOT]
<1>1. ROOT = 0 /\ ROOT \in Base /\ Base \subseteq Nat /\ \A c \in Base \ {ROOT} : parent[c] = ROOT
  BY StoreTypes DEF StoreInv, TypeOK
<1>2. \A c \in Base : g[c] = IF h >= c THEN c ELSE g[parent[c]]
  BY <1>1
<1>3. g = [s \in Base |-> IF h >= s THEN s ELSE g[parent[s]]]
  BY <1>2
<1> HIDE DEF g
<1>4. own = [s \in Base |-> IF h >= s THEN s ELSE own[parent[s]]]
  BY <1>3, Zenon DEF own
<1> HIDE DEF own
<1>5. own[ROOT] = ROOT
  BY <1>1, <1>4
<1>6. own[b] = IF h >= b THEN b ELSE ROOT
  BY <1>1, <1>4, <1>5
<1>7. owner(b, h) = own[b]
  BY DEF owner, own
<1>8. QED
  BY <1>6, <1>7

\* Every chain reaches the checkpoint.
LEMMA HeightOfChain ==
    ASSUME StoreInv, NEW o \in Live
    PROVE  /\ base_height(o) \in Base /\ blockchains[base_height(o)] = o
           /\ height(o) \in Nat /\ height(o) >= VBH
<1>1. base_height(o) \in Base /\ blockchains[base_height(o)] = o
  BY BaseFacts DEF StoreInv
<1>2. \A b \in Base : b \in Nat /\ Len(file[b]) \in Nat
  BY StoreTypes DEF StoreInv, TypeOK
<1>3. \A b \in Base : b = ROOT \/ b > VBH
  BY DEF StoreInv, VBH
<1>4. Len(file[ROOT]) > VBH /\ VBH \in Nat /\ ROOT = 0
  BY StoreTypes DEF StoreInv, VBH
<1>5. QED
  BY <1>1, <1>2, <1>3, <1>4 DEF height, top

\* Every chain has the headers of Trunk.
LEMMA TrunkHeld ==
    ASSUME StoreInv, TrunkKept, NEW o \in Live, NEW n \in 0..VBH
    PROVE  read_header(o, n) = Trunk[n + 1] /\ Trunk[n + 1] \in Header /\ Height[Trunk[n + 1]] = n
<1> DEFINE b == base_height(o)
<1>1. b \in Base /\ b \in Nat /\ (b = ROOT \/ b > VBH)
  BY HeightOfChain DEF StoreInv, VBH, TypeOK
<1>2. VBH \in Nat /\ ROOT = 0 /\ Len(file[ROOT]) \in Nat /\ Len(file[ROOT]) > VBH
  BY StoreTypes DEF StoreInv, VBH
<1>3. owner(b, n) = ROOT
  BY <1>1, <1>2, OwnerFacts
<1>4. n + 1 \in 1..Len(Trunk) /\ Trunk[n + 1] \in Header /\ Height[Trunk[n + 1]] = n
  BY <1>2, HeaderAssumption, ElementOfSeq DEF VBH
<1>5. n \in ROOT..top(file, ROOT) /\ n - ROOT + 1 = n + 1
  BY <1>2 DEF top
<1>6. file[ROOT][n + 1] = Trunk[n + 1] /\ Trunk[n + 1] # NULL_HEADER
  BY <1>4, HeaderAssumption DEF TrunkKept
<1>7. QED
  BY <1>3, <1>4, <1>5, <1>6 DEF read_header, header_in

\* A chain that has a header is a chain of the store.
LEMMA HolderFacts ==
    ASSUME StoreInv, NEW h
    PROVE  /\ holders(h) \subseteq Live /\ connectable(h) \subseteq Live
           /\ \A o \in holders(h) : check_header(o, h)
           /\ holders(h) = {} => \A o \in Live : ~check_header(o, h)
<1>1. ROOT \in Base
  BY StoreTypes
<1>2. QED
  BY <1>1 DEF holders, connectable, Live

\* A header of Trunk up to the checkpoint is had by a chain.
LEMMA ProvenHeld ==
    ASSUME StoreInv, TrunkKept, NEW h \in Header, Height[h] <= VBH, h = Trunk[Height[h] + 1]
    PROVE  holders(h) # {} /\ \A o \in Live : check_header(o, h)
<1>1. Height[h] \in 0..VBH
  BY HeightFacts, MaxHeightFacts
<1>2. \A o \in Live : check_header(o, h)
  BY <1>1, TrunkHeld DEF check_header
<1>3. blockchains[ROOT] \in Live
  BY StoreTypes DEF Live
<1>4. QED
  BY <1>2, <1>3 DEF holders

-----------------------------------------------------------------------------
(* What a handler may do to the store.                                     *)

StoreGrows ==
    /\ StoreInv' /\ crashes' = 0 /\ TrunkKept' /\ Live \subseteq Live'
    /\ [Next]_storeVars

\* Nothing at all.
LEMMA GrowSame ==
    ASSUME StoreInv, crashes = 0, TrunkKept, UNCHANGED storeVars
    PROVE  StoreGrows
<1>1. UNCHANGED <<file, parent, blockchains, swapping, crashes>>
  BY DEF storeVars, vars
<1>2. StoreInv'
  BY <1>1 DEF StoreInv, TypeOK, RootIsLongest, ExchangeInv, Base, top
<1>3. Live' = Live /\ TrunkKept'
  BY <1>1 DEF Live, Base, TrunkKept
<1>4. QED
  BY <1>1, <1>2, <1>3 DEF StoreGrows

\* A write at the end of the root file, or anywhere in a fork file.
LEMMA GrowSave ==
    ASSUME StoreInv, crashes = 0, TrunkKept, NEW b \in Base, NEW data \in Seq(Header),
           NEW off \in 0..Len(file[b]), b = ROOT => off = Len(file[b]),
           Save(written(b, data, off), b)
    PROVE  crashes' = 0 /\ TrunkKept' /\ Live' = Live
<1>1. /\ file' = [file EXCEPT ![b] = SubSeq(file[b], 1, off) \o data]
      /\ UNCHANGED <<parent, blockchains, crashes>>
  BY DEF Save, written
<1>2. file \in [Base -> Seq(Stored)] /\ data \in Seq(Stored) /\ Header \subseteq Stored
  BY DEF StoreInv, TypeOK, Stored
<1>3. Base' = Base /\ Live' = Live
  BY <1>1, <1>2 DEF Base, Live
<1>4. \A i \in 1..Len(Trunk) : i \in 1..Len(file[ROOT])
  BY StoreTypes, HeaderAssumption DEF StoreInv
<1>5. CASE b = ROOT
  <2>1. \A i \in 1..Len(file[ROOT]) : file'[ROOT][i] = file[ROOT][i]
    BY <1>1, <1>2, <1>5, WrittenFacts
  <2>2. QED
    BY <1>1, <1>3, <1>4, <2>1 DEF TrunkKept
<1>6. CASE b # ROOT
  <2>1. file'[ROOT] = file[ROOT]
    BY <1>1, <1>2, <1>6, StoreTypes
  <2>2. QED
    BY <1>1, <1>3, <2>1 DEF TrunkKept
<1>7. QED
  BY <1>5, <1>6

\* A header on top of a chain.
LEMMA GrowSaveHeader ==
    ASSUME StoreInv, crashes = 0, TrunkKept, NEW o \in Live, NEW h \in Header, save_header(o, h)
    PROVE  StoreGrows /\ Live' = Live
<1> DEFINE b == base_height(o)
<1>1. b \in Base
  BY HeightOfChain
<1>2. b \in Nat /\ Len(file[b]) \in Nat /\ Height[h] \in Nat
  BY <1>1, StoreTypes, HeaderAssumption DEF StoreInv, TypeOK
<1>3. Height[h] - b = Len(file[b])
  BY <1>2 DEF save_header, can_connect, height, top
<1>4. Save(written(b, <<h>>, Len(file[b])), b)
  BY <1>3 DEF save_header
<1>5. <<h>> \in Seq(Header) /\ Len(file[b]) \in 0..Len(file[b])
  BY <1>2
<1> HIDE DEF b
<1>6. crashes' = 0 /\ TrunkKept' /\ Live' = Live
  BY <1>1, <1>4, <1>5, GrowSave
<1>7. StoreInv' /\ Next
  BY StoreSaveHeader DEF Next
<1>8. QED
  BY <1>6, <1>7 DEF StoreGrows

\* A chunk on top of a chain.
LEMMA GrowChunk ==
    ASSUME StoreInv, crashes = 0, TrunkKept, NEW o \in Live, NEW data \in Chunks, connect_chunk(o, data)
    PROVE  StoreGrows /\ Live' = Live
<1> DEFINE b == base_height(o)
<1>1. b \in Base /\ data \in Seq(Header)
  BY HeightOfChain, HeaderAssumption
<1>2. b \in Nat /\ Len(file[b]) \in Nat
  BY <1>1, StoreTypes DEF StoreInv, TypeOK
<1>3. Height[data[1]] = b + Len(file[b]) - 1 + 1
  BY DEF connect_chunk, height, top
<1>4. Height[data[1]] - b = Len(file[b])
  BY <1>2, <1>3
<1>5. Save(written(b, data, Len(file[b])), b)
  BY <1>4 DEF connect_chunk
<1>6. Len(file[b]) \in 0..Len(file[b])
  BY <1>2
<1> HIDE DEF b
<1>7. crashes' = 0 /\ TrunkKept' /\ Live' = Live
  BY <1>1, <1>5, <1>6, GrowSave
<1>8. StoreInv' /\ Next
  BY StoreChunk DEF Next
<1>9. QED
  BY <1>7, <1>8 DEF StoreGrows

\* The fork file is started again.
LEMMA GrowReplace ==
    ASSUME StoreInv, crashes = 0, TrunkKept, NEW o \in Live, NEW h \in Header, replace(o, h)
    PROVE  StoreGrows /\ Live' = Live
<1>1. /\ Height[h] \in Base /\ Height[h] > VERIFICATION_BLOCK_HEIGHT
      /\ Save(written(Height[h], <<h>>, 0), Height[h])
  BY DEF replace, replaceable
<1>2. Height[h] # ROOT
  BY <1>1, HeaderAssumption DEF ROOT
<1>3. 0 \in 0..Len(file[Height[h]]) /\ <<h>> \in Seq(Header)
  BY <1>1, StoreTypes
<1>4. crashes' = 0 /\ TrunkKept' /\ Live' = Live
  BY <1>1, <1>2, <1>3, GrowSave
<1>5. StoreInv' /\ Next
  BY StoreReplace DEF Next
<1>6. QED
  BY <1>4, <1>5 DEF StoreGrows

\* A fork file is made.
LEMMA GrowFork ==
    ASSUME StoreInv, crashes = 0, TrunkKept, MaxForks <= 1,
           NEW o \in Live, NEW h \in Header, fork(o, h)
    PROVE  StoreGrows /\ blockchains'[Height[h]] \in Live'
<1>1. /\ swapping = NoSwap /\ Height[h] \in Nat \ Base /\ Height[h] > VERIFICATION_BLOCK_HEIGHT
      /\ Cardinality(Base) <= MaxForks /\ height(o) >= Height[h]
      /\ new_file(o, Height[h], <<h>>) /\ swapping' = NoSwap /\ crashes' = crashes
  BY HeaderAssumption DEF fork, branches
<1>2. <<h>> \in Seq(Header) /\ Len(<<h>>) <= 1 /\ crashes \in 0..MaxCrashes
  BY DEF StoreInv, TypeOK
<1>3. /\ StoreInv' /\ Base' = {ROOT, Height[h]} /\ file'[ROOT] = file[ROOT]
      /\ blockchains'[ROOT] = blockchains[ROOT]
  BY <1>1, <1>2, StoreNewFile
<1>4. \A c \in Base : blockchains'[c] = blockchains[c] /\ c \in Base'
  BY <1>1, <1>3 DEF new_file, Base
<1>5. Live \subseteq Live' /\ blockchains'[Height[h]] \in Live'
  BY <1>3, <1>4 DEF Live
<1>6. TrunkKept' /\ Next
  BY <1>3 DEF TrunkKept, Next
<1>7. QED
  BY <1>1, <1>3, <1>5, <1>6 DEF StoreGrows

\* A step of an exchange of files.
LEMMA GrowSwap ==
    ASSUME StoreInv, crashes = 0, TrunkKept, write_self \/ write_parent \/ swap_pointers
    PROVE  StoreGrows
<1> DEFINE b == swapping.base
<1>1. swapping # NoSwap /\ crashes' = crashes
  BY DEF write_self, write_parent, swap_pointers
<1>2. /\ b \in Base \ {ROOT} /\ Base = {ROOT, b} /\ parent[b] = ROOT /\ ROOT = 0
      /\ b \in Nat /\ b > VERIFICATION_BLOCK_HEIGHT /\ Len(file[ROOT]) >= b
      /\ swapping.my_data \in Seq(Stored) /\ swapping.parent_data \in Seq(Stored)
  BY <1>1, ExchangeFacts, StoreTypes
<1>3. file \in [Base -> Seq(Stored)] /\ blockchains \in [Base -> Chain]
  BY DEF StoreInv, TypeOK, Stored
<1>4. StoreInv' /\ Next
  BY StoreWriteSelf, StoreWriteParent, StoreSwapPointers DEF Next
<1>5. CASE write_self
  <2>1. file' = [file EXCEPT ![b] = swapping.parent_data] /\ blockchains' = blockchains
    BY <1>5 DEF write_self
  <2>2. file'[ROOT] = file[ROOT] /\ Base' = Base
    BY <1>2, <1>3, <2>1 DEF Base
  <2>3. TrunkKept' /\ Live' = Live
    BY <2>1, <2>2 DEF TrunkKept, Live
  <2>4. QED
    BY <1>1, <1>4, <2>3 DEF StoreGrows
<1>6. CASE write_parent
  <2>0. b - ROOT = b
    BY <1>2
  <2>1. /\ file' = [file EXCEPT ![ROOT] = SubSeq(file[ROOT], 1, b) \o swapping.my_data]
        /\ blockchains' = blockchains
    BY <1>2, <1>6, <2>0, Zenon DEF write_parent, written
  <2>2. \A i \in 1..b : (SubSeq(file[ROOT], 1, b) \o swapping.my_data)[i] = file[ROOT][i]
    BY <1>2, <1>3, WrittenFacts, StoreTypes
  <2>3. Base' = Base /\ \A i \in 1..b : file'[ROOT][i] = file[ROOT][i]
    BY <1>2, <1>3, <2>1, <2>2 DEF Base
  <2>4. \A i \in 1..Len(Trunk) : i \in 1..b
    BY <1>2, HeaderAssumption
  <2>5. TrunkKept' /\ Live' = Live
    BY <2>1, <2>3, <2>4 DEF TrunkKept, Live
  <2>6. QED
    BY <1>1, <1>4, <2>5 DEF StoreGrows
<1>7. CASE swap_pointers
  <2>1. /\ blockchains' = [blockchains EXCEPT ![b] = blockchains[ROOT], ![ROOT] = blockchains[b]]
        /\ file' = file
    BY <1>2, <1>7 DEF swap_pointers
  <2>2. Base' = Base /\ blockchains'[b] = blockchains[ROOT] /\ blockchains'[ROOT] = blockchains[b]
    BY <1>2, <1>3, <2>1 DEF Base
  <2>3. TrunkKept' /\ Live \subseteq Live'
    BY <1>2, <2>1, <2>2 DEF TrunkKept, Live
  <2>4. QED
    BY <1>1, <1>4, <2>3 DEF StoreGrows
<1>8. QED
  BY <1>5, <1>6, <1>7

-----------------------------------------------------------------------------
(* What a handler may do to the interfaces.                                *)

Request == [kind : {"header", "headers", "proof"}, at : 0..(MaxHeight + 1)]

\* One interface, with its types.
IfaceOK(s) ==
    /\ mode[s] \in Modes /\ tip[s] \in Header \cup {NoHeader}
    /\ good[s] \in 0..MaxHeight /\ bad[s] \in Header \cup {NoHeader}
    /\ request[s] \subseteq Request
    /\ mode[s] \in {"backward", "binary"} => bad[s] # NoHeader
    /\ mode[s] = "catch_up" => on[s] # NoChain
    /\ mode[s] \in Searching => tip[s] # NoHeader
    /\ IfaceInv(s)

\* Only interface s changes.
Only(s) ==
    \A u \in Server \ {s} :
       /\ served'[u] = served[u] /\ mode'[u] = mode[u] /\ tip'[u] = tip[u] /\ on'[u] = on[u]
       /\ good'[u] = good[u] /\ bad'[u] = bad[u] /\ request'[u] = request[u]

Shaped ==
    /\ served \in [Server -> Header] /\ verified \in [Server -> {"no", "asked", "root"}]
    /\ mode = [s \in Server |-> mode[s]] /\ tip = [s \in Server |-> tip[s]]
    /\ on = [s \in Server |-> on[s]] /\ good = [s \in Server |-> good[s]]
    /\ bad = [s \in Server |-> bad[s]] /\ request = [s \in Server |-> request[s]]

\* SyncInv is made of these parts.
LEMMA SyncParts ==
    ASSUME SyncInv
    PROVE  /\ StoreInv /\ crashes = 0 /\ TrunkKept /\ HeldInv /\ Shaped
           /\ \A s \in Server : IfaceOK(s)
<1>1. StoreInv /\ crashes = 0 /\ TrunkKept
  BY DEF SyncInv, TrunkKept
<1>2. HeldInv
  BY DEF SyncInv, SyncTypeOK, HeldInv, Modes, Marks
<1>3. Shaped
  BY DEF SyncInv, SyncTypeOK, Shaped
<1>4. ASSUME NEW s \in Server PROVE IfaceOK(s)
  BY DEF SyncInv, SyncTypeOK, IfaceOK, Modes, Request
<1>5. QED
  BY <1>1, <1>2, <1>3, <1>4

\* A step of one interface.
LEMMA SyncStep ==
    ASSUME SyncInv, NEW s \in Server, StoreGrows, HeldInv', Shaped', Only(s), IfaceOK(s)'
    PROVE  SyncInv' /\ [Next]_storeVars
<1>1. \A u \in Server : IfaceOK(u)
  BY SyncParts
<1>2. StoreInv' /\ crashes' = 0 /\ TrunkKept' /\ Live \subseteq Live' /\ [Next]_storeVars
  BY DEF StoreGrows
<1>3. ASSUME NEW u \in Server \ {s} PROVE IfaceOK(u)'
  <2>1. /\ served'[u] = served[u] /\ mode'[u] = mode[u] /\ tip'[u] = tip[u] /\ on'[u] = on[u]
        /\ good'[u] = good[u] /\ bad'[u] = bad[u] /\ request'[u] = request[u]
    BY DEF Only
  <2>2. IfaceOK(u)
    BY <1>1
  <2>3. QED
    BY <1>2, <2>1, <2>2 DEF IfaceOK, IfaceInv
<1>4. \A u \in Server : IfaceOK(u)'
  BY <1>3
<1>5. TypeOK' /\ Live' \subseteq Chain
  <2>1. TypeOK'
    BY <1>2 DEF StoreInv
  <2>2. QED
    BY <2>1 DEF TypeOK, Live
<1>6. \A u \in Server : on'[u] \in Chain \cup {NoChain}
  BY <1>4, <1>5 DEF IfaceOK, IfaceInv
<1>7. SyncTypeOK'
  <2>1. mode' \in [Server -> Modes] /\ tip' \in [Server -> Header \cup {NoHeader}]
    BY <1>4 DEF Shaped, IfaceOK
  <2>2. on' \in [Server -> Chain \cup {NoChain}]
    BY <1>6 DEF Shaped
  <2>3. good' \in [Server -> 0..MaxHeight] /\ bad' \in [Server -> Header \cup {NoHeader}]
    BY <1>4 DEF Shaped, IfaceOK
  <2>4. request' \in [Server -> SUBSET Request]
    BY <1>4 DEF Shaped, IfaceOK
  <2>5. \A u \in Server : /\ mode'[u] \in {"backward", "binary"} => bad'[u] # NoHeader
                          /\ mode'[u] = "catch_up" => on'[u] # NoChain
                          /\ mode'[u] \in Searching => tip'[u] # NoHeader
    BY <1>4 DEF IfaceOK
  <2>6. QED
    BY <1>5, <2>1, <2>2, <2>3, <2>4, <2>5 DEF SyncTypeOK, Shaped, Modes, Request
<1>8. \A u \in Server : IfaceInv(u)'
  BY <1>4 DEF IfaceOK
<1>9. QED
  BY <1>2, <1>7, <1>8 DEF SyncInv, HeldInv, Marks, TrunkKept

\* A connection that is closed.
LEMMA SyncDown ==
    ASSUME SyncInv, NEW s \in Server, connection_down(s), HeldInv'
    PROVE  SyncInv' /\ [Next]_storeVars
<1>1. /\ StoreInv /\ crashes = 0 /\ TrunkKept /\ Shaped /\ \A u \in Server : IfaceOK(u)
  BY SyncParts
<1>2. StoreGrows
  BY <1>1, GrowSame DEF connection_down
<1>3. /\ mode' = [mode EXCEPT ![s] = "down"] /\ request' = [request EXCEPT ![s] = {}]
      /\ tip' = [tip EXCEPT ![s] = NoHeader] /\ on' = [on EXCEPT ![s] = NoChain]
      /\ good' = [good EXCEPT ![s] = 0] /\ bad' = [bad EXCEPT ![s] = NoHeader]
      /\ served' = served /\ verified' = verified
  BY DEF connection_down, Go
<1>4. Shaped' /\ Only(s)
  BY <1>1, <1>3 DEF Shaped, Only
<1>5. /\ mode'[s] = "down" /\ request'[s] = {} /\ tip'[s] = NoHeader /\ on'[s] = NoChain
      /\ good'[s] = 0 /\ bad'[s] = NoHeader
  BY <1>1, <1>3 DEF Shaped
<1>6. IfaceOK(s)'
  BY <1>5, MaxHeightFacts DEF IfaceOK, IfaceInv, Modes, Searching
<1>7. QED
  BY <1>2, <1>4, <1>6, SyncStep

\* The records an interface asks with.
LEMMA RequestFacts ==
    /\ \A n \in 0..(MaxHeight + 1) : header(n) \in Request /\ headers(n) \in Request
    /\ \A n : /\ header(n).kind = "header" /\ header(n).at = n
              /\ headers(n).kind = "headers" /\ headers(n).at = n
    /\ proof \in Request /\ proof.kind = "proof"
<1>1. VBH \in 0..(MaxHeight + 1)
  BY MaxHeightFacts
<1>2. QED
  BY <1>1 DEF header, headers, proof, Request

\* Without a crash and between exchanges the root is the highest chain.
LEMMA HighestIsRoot ==
    ASSUME StoreInv, crashes = 0, swapping = NoSwap
    PROVE  highest = top(file, ROOT) /\ highest \in Nat
<1> DEFINE S == {top(file, b) : b \in Base}
<1>1. \A b \in Base : top(file, b) \in Int
  BY StoreTypes DEF top, StoreInv, TypeOK
<1>2. ROOT \in Base /\ \A b \in Base : top(file, b) <= top(file, ROOT)
  BY StoreTypes DEF StoreInv, RootIsLongest
<1>3. top(file, ROOT) \in S /\ \A y \in S : top(file, ROOT) >= y /\ y \in Int
  BY <1>1, <1>2
<1>4. highest \in S /\ \A y \in S : highest >= y
  BY <1>3 DEF highest, Max
<1>5. top(file, ROOT) \in Nat
  BY StoreTypes DEF top, StoreInv
<1>6. QED
  BY <1>3, <1>4, <1>5

\* A tip that is processed.
LEMMA SyncTip ==
    ASSUME SyncInv, HeldInv', NEW s \in Server, NEW h \in Header, Height[h] > VBH, swapping = NoSwap,
           NEW R \in SUBSET request[s], mode[s] \in {"verification", "default"},
           _process_latest_tip(s, h, R),
           served' = [served EXCEPT ![s] = h], tip' = [tip EXCEPT ![s] = h],
           verified' \in [Server -> {"no", "asked", "root"}]
    PROVE  SyncInv' /\ [Next]_storeVars
<1>1. /\ StoreInv /\ crashes = 0 /\ TrunkKept /\ Shaped /\ IfaceOK(s)
  BY SyncParts
<1>2. Height[h] \in Nat /\ Height[h] <= MaxHeight /\ VBH \in Nat \ {0} /\ MaxHeight \in Nat /\ h # Genesis
  BY MaxHeightFacts, HeightFacts
<1>3. h # NoHeader /\ tip'[s] = h /\ served'[s] = h
  BY <1>1, HeaderAssumption DEF Shaped
<1>4. /\ R \subseteq Request
      /\ \A q \in R : /\ q.kind = "headers" => on[s] # NoChain /\ q.at > VBH
                      /\ q.kind = "header" => q.at > 0
  BY <1>1 DEF IfaceOK, IfaceInv
<1>5. blockchains[ROOT] \in Live /\ Live \subseteq Chain /\ NoChain \notin Live
  BY <1>1, StoreTypes, ServerAssumption DEF Live, StoreInv, TypeOK
<1>6. ASSUME NEW o \in Live, StoreGrows, on' = [on EXCEPT ![s] = o], Go(s, "default", R), UNCHANGED <<good, bad>>
      PROVE  SyncInv' /\ [Next]_storeVars
  <2>1. Shaped' /\ Only(s)
    BY <1>1, <1>6 DEF Shaped, Only, Go
  <2>2. /\ mode'[s] = "default" /\ request'[s] = R /\ on'[s] = o /\ good'[s] = good[s] /\ bad'[s] = bad[s]
        /\ o # NoChain /\ o \in Live'
    BY <1>1, <1>5, <1>6 DEF Shaped, Go, StoreGrows
  <2>3. IfaceOK(s)'
    BY <1>1, <1>3, <1>4, <2>2 DEF IfaceOK, IfaceInv, Modes, Searching
  <2>4. QED
    BY <1>6, <2>1, <2>3, SyncStep
<1>7. CASE known_tip(s, h, R)
  <2>1. PICK o \in holders(h) : on' = [on EXCEPT ![s] = o]
    BY <1>7 DEF known_tip
  <2>2. StoreGrows /\ o \in Live
    BY <1>1, <1>7, GrowSame, HolderFacts DEF known_tip
  <2>3. QED
    BY <1>6, <1>7, <2>1, <2>2 DEF known_tip
<1>8. CASE next_tip(s, h, R)
  <2>1. PICK o \in connectable(h) : save_header(o, h) /\ on' = [on EXCEPT ![s] = o]
    BY <1>8 DEF next_tip
  <2>2. o \in Live
    BY <1>1, HolderFacts
  <2>3. StoreGrows
    BY <1>1, <2>1, <2>2, GrowSaveHeader
  <2>4. QED
    BY <1>6, <1>8, <2>1, <2>2, <2>3 DEF next_tip
<1>9. CASE start_search(s, h, R)
  <2> DEFINE k == Min({highest, Height[h] - 1})
  <2>1. k \in 1..MaxHeight
    <3>1. highest \in Nat /\ highest > VBH
      BY <1>1, <1>9, HighestIsRoot DEF start_search
    <3>2. Height[h] - 1 \in Nat /\ Height[h] - 1 >= VBH /\ Height[h] - 1 <= MaxHeight
      BY <1>2
    <3>3. highest \in Int /\ Height[h] - 1 \in Int
      BY <3>1, <3>2
    <3>4. k = IF highest <= Height[h] - 1 THEN highest ELSE Height[h] - 1
      BY <3>3, MaxMin, Zenon
    <3>5. QED
      BY <1>2, <3>1, <3>2, <3>4
  <2>2. /\ mode' = [mode EXCEPT ![s] = "backward"] /\ request' = [request EXCEPT ![s] = R \cup {header(k)}]
        /\ bad' = [bad EXCEPT ![s] = h] /\ UNCHANGED <<storeVars, on, good>>
    BY <1>9 DEF start_search, Go
  <2> HIDE DEF k
  <2>3. StoreGrows /\ Shaped' /\ Only(s)
    BY <1>1, <2>2, GrowSame DEF Shaped, Only
  <2>4. /\ mode'[s] = "backward" /\ request'[s] = R \cup {header(k)} /\ on'[s] = on[s]
        /\ good'[s] = good[s] /\ bad'[s] = h
    BY <1>1, <2>2 DEF Shaped
  <2>5. header(k) \in Request /\ header(k).kind = "header" /\ header(k).at > 0
    BY <1>2, <2>1, RequestFacts
  <2>6. on[s] \in Live' \cup {NoChain}
    BY <1>1, <2>3 DEF IfaceOK, IfaceInv, StoreGrows
  <2>7. IfaceOK(s)'
    BY <1>1, <1>2, <1>3, <1>4, <2>4, <2>5, <2>6 DEF IfaceOK, IfaceInv, Modes, Searching
  <2>8. QED
    BY <2>3, <2>7, SyncStep
<1>10. CASE initial_catch_up(s, h, R)
  <2>1. /\ mode' = [mode EXCEPT ![s] = "catch_up"] /\ request' = [request EXCEPT ![s] = R \cup {header(VBH + 1)}]
        /\ on' = [on EXCEPT ![s] = blockchains[ROOT]] /\ UNCHANGED <<storeVars, bad, good>>
    BY <1>10 DEF initial_catch_up, Go
  <2>2. StoreGrows /\ Shaped' /\ Only(s)
    BY <1>1, <2>1, GrowSame DEF Shaped, Only
  <2>3. /\ mode'[s] = "catch_up" /\ request'[s] = R \cup {header(VBH + 1)} /\ on'[s] = blockchains[ROOT]
        /\ good'[s] = good[s] /\ bad'[s] = bad[s]
    BY <1>1, <2>1 DEF Shaped
  <2>4. header(VBH + 1) \in Request /\ header(VBH + 1).kind = "header" /\ header(VBH + 1).at > 0
    BY <1>2, RequestFacts
  <2>5. blockchains[ROOT] \in Live' /\ blockchains[ROOT] # NoChain
    BY <1>5, <2>2 DEF StoreGrows
  <2>6. IfaceOK(s)'
    BY <1>1, <1>3, <1>4, <2>3, <2>4, <2>5 DEF IfaceOK, IfaceInv, Modes, Searching
  <2>7. QED
    BY <2>2, <2>6, SyncStep
<1>11. CASE already_catching_up(s, h, R)
  <2>1. /\ mode' = [mode EXCEPT ![s] = "default"] /\ request' = [request EXCEPT ![s] = R]
        /\ UNCHANGED <<storeVars, on, bad, good>>
    BY <1>11 DEF already_catching_up, Go
  <2>2. StoreGrows /\ Shaped' /\ Only(s)
    BY <1>1, <2>1, GrowSame DEF Shaped, Only
  <2>3. /\ mode'[s] = "default" /\ request'[s] = R /\ on'[s] = on[s]
        /\ good'[s] = good[s] /\ bad'[s] = bad[s]
    BY <1>1, <2>1 DEF Shaped
  <2>4. on[s] \in Live' \cup {NoChain}
    BY <1>1, <2>2 DEF IfaceOK, IfaceInv, StoreGrows
  <2>5. IfaceOK(s)'
    BY <1>1, <1>3, <1>4, <2>3, <2>4 DEF IfaceOK, IfaceInv, Modes, Searching
  <2>6. QED
    BY <2>2, <2>5, SyncStep
<1>12. QED
  BY <1>7, <1>8, <1>9, <1>10, <1>11 DEF _process_latest_tip

-----------------------------------------------------------------------------
(* on_header.                                                              *)

\* A header that is answered: its height, and what it proves.
LEMMA AnswerFacts ==
    ASSUME SyncInv, NEW s \in Server, NEW n \in Nat, answers(s, n), n <= Height[served[s]], proven(s, n)
    PROVE  LET g == at(served[s], n)
           IN  /\ n > 0 /\ n <= MaxHeight /\ g \in Header \ {Genesis} /\ Height[g] = n
               /\ n <= VBH => g = Trunk[n + 1]
               /\ holders(g) = {} => n > VBH
               /\ tip[s] \in Header /\ tip[s] = served[s] /\ mode[s] \notin {"down", "verification"}
               /\ swapping = NoSwap
<1> DEFINE g == at(served[s], n)
<1>1. StoreInv /\ TrunkKept /\ Shaped /\ IfaceOK(s)
  BY SyncParts
<1>2. header(n) \in request[s] /\ header(n).kind = "header" /\ header(n).at = n
  BY RequestFacts DEF answers
<1>3. header(n) # proof
  BY DEF header, proof
<1>4. /\ n > 0 /\ tip[s] \in Header /\ tip[s] = served[s] /\ mode[s] \notin {"down", "verification"}
  BY <1>1, <1>2, <1>3 DEF IfaceOK, IfaceInv
<1>5. served[s] \in Header /\ Height[served[s]] \in 0..MaxHeight
  BY <1>1, MaxHeightFacts DEF Shaped
<1>6. n \in 0..Height[served[s]] /\ n <= MaxHeight
  BY <1>5, MaxHeightFacts
<1>7. g \in Header /\ Height[g] = n
  BY <1>5, <1>6, AtFacts
<1>8. g # Genesis
  BY <1>4, <1>7, HeightFacts
<1>9. n <= VBH => g = Trunk[n + 1]
  BY DEF proven
<1>10. holders(g) = {} => n > VBH
  <2>1. SUFFICES ASSUME n <= VBH PROVE holders(g) # {}
    BY MaxHeightFacts
  <2>2. QED
    BY <1>1, <1>7, <1>9, <2>1, ProvenHeld
<1>11. swapping = NoSwap
  BY DEF answers
<1>12. QED
  BY <1>4, <1>6, <1>7, <1>8, <1>9, <1>10, <1>11

\* What an interface still waits for after an answer.
LEMMA OthersFacts ==
    ASSUME SyncInv, NEW s \in Server, NEW n
    PROVE  /\ others(s, n) \subseteq Request
           /\ \A q \in others(s, n) : /\ q.kind = "headers" => on[s] # NoChain /\ q.at > VBH
                                      /\ q.kind = "header" => q.at > 0
<1>1. IfaceOK(s)
  BY SyncParts
<1>2. QED
  BY <1>1 DEF others, IfaceOK, IfaceInv

\* The middle of an interval.
LEMMA HalfFacts ==
    ASSUME NEW a \in 1..MaxHeight, NEW b \in 1..MaxHeight
    PROVE  (a + b) \div 2 \in 1..MaxHeight
<1>1. MaxHeight \in Nat
  BY MaxHeightFacts
<1>2. QED
  BY <1>1

\* Going back.
LEMMA SyncBackward ==
    ASSUME SyncInv, HeldInv', NEW s \in Server, NEW n \in Nat, answers(s, n), n <= Height[served[s]],
           proven(s, n), backward(s, n, at(served[s], n))
    PROVE  SyncInv' /\ [Next]_storeVars
<1> DEFINE g == at(served[s], n)
           Q == others(s, n)
<1>1. StoreInv /\ crashes = 0 /\ TrunkKept /\ Shaped /\ IfaceOK(s)
  BY SyncParts
<1>2. /\ n > 0 /\ n <= MaxHeight /\ g \in Header \ {Genesis} /\ Height[g] = n
      /\ n <= VBH => g = Trunk[n + 1]
      /\ holders(g) = {} => n > VBH
      /\ tip[s] \in Header /\ tip[s] = served[s]
  BY AnswerFacts
<1>3. /\ Q \subseteq Request
      /\ \A q \in Q : /\ q.kind = "headers" => on[s] # NoChain /\ q.at > VBH
                      /\ q.kind = "header" => q.at > 0
  BY OthersFacts
<1>4. VBH \in Nat \ {0} /\ MaxHeight \in Nat /\ VBH <= MaxHeight
  BY MaxHeightFacts
<1>5. mode[s] = "backward" /\ g # NoHeader
  BY <1>2, HeaderAssumption DEF backward
<1> HIDE DEF Q, g
<1>6. ASSUME NEW o \in holders(g), on' = [on EXCEPT ![s] = o], good' = [good EXCEPT ![s] = n],
             Go(s, "binary", Q \cup {header((Height[bad[s]] + n) \div 2)}),
             UNCHANGED <<storeVars, served, tip, bad, verified, catch_up>>
      PROVE  SyncInv' /\ [Next]_storeVars
  <2> DEFINE k == (Height[bad[s]] + n) \div 2
  <2>1. bad[s] \in Header \ {Genesis}
    BY <1>1, <1>5 DEF IfaceOK, IfaceInv
  <2>2. Height[bad[s]] \in 1..MaxHeight
    BY <2>1, HeightFacts, MaxHeightFacts
  <2>3. k \in 1..MaxHeight
    BY <1>2, <1>4, <2>2, HalfFacts
  <2>4. header(k) \in Request /\ header(k).kind = "header" /\ header(k).at > 0
    <3> HIDE DEF k
    <3>1. QED
      BY <1>4, <2>3, RequestFacts
  <2>5. /\ mode' = [mode EXCEPT ![s] = "binary"] /\ request' = [request EXCEPT ![s] = Q \cup {header(k)}]
    BY <1>6 DEF Go
  <2> HIDE DEF k
  <2>6. StoreGrows /\ Shaped' /\ Only(s)
    BY <1>1, <1>6, <2>5, GrowSame DEF Shaped, Only
  <2>7. o \in Live' /\ o # NoChain
    <3>1. o \in Live /\ Live \subseteq Chain
      BY <1>1, HolderFacts DEF Live, StoreInv, TypeOK
    <3>2. QED
      BY <2>6, <3>1, ServerAssumption DEF StoreGrows
  <2>8. /\ mode'[s] = "binary" /\ request'[s] = Q \cup {header(k)} /\ on'[s] = o /\ good'[s] = n
        /\ bad'[s] = bad[s] /\ tip'[s] = tip[s] /\ served'[s] = served[s]
    BY <1>1, <1>6, <2>5 DEF Shaped
  <2>9. n \in 0..MaxHeight
    BY <1>2, <1>4
  <2>10. IfaceOK(s)'
    BY <1>1, <1>2, <1>3, <1>5, <2>4, <2>7, <2>8, <2>9 DEF IfaceOK, IfaceInv, Modes, Searching
  <2>11. QED
    BY <2>6, <2>10, SyncStep
<1>7. ASSUME holders(g) = {}, bad' = [bad EXCEPT ![s] = g],
             Go(s, "backward", Q \cup {header(further(s, n))}),
             UNCHANGED <<storeVars, served, tip, on, good, verified, catch_up>>
      PROVE  SyncInv' /\ [Next]_storeVars
  <2> DEFINE k == further(s, n)
             t == Height[tip[s]]
  <2>1. t \in Nat /\ t <= MaxHeight /\ n <= t
    BY <1>2, MaxHeightFacts, HeightFacts
  <2>2. k \in 1..MaxHeight
    <3>1. VBH \in Int /\ t - 2 * (t - n) \in Int
      BY <1>4, <2>1
    <3>2. k = IF VBH <= t - 2 * (t - n) THEN t - 2 * (t - n) ELSE VBH
      BY <3>1, MaxMin, Zenon DEF further
    <3> HIDE DEF k, t
    <3>3. QED
      BY <1>2, <1>4, <2>1, <3>2
  <2> HIDE DEF k, t
  <2>3. header(k) \in Request /\ header(k).kind = "header" /\ header(k).at > 0
    BY <1>4, <2>2, RequestFacts
  <2>4. /\ mode' = [mode EXCEPT ![s] = "backward"] /\ request' = [request EXCEPT ![s] = Q \cup {header(k)}]
    BY <1>7 DEF Go, k
  <2>5. StoreGrows /\ Shaped' /\ Only(s)
    BY <1>1, <1>7, <2>4, GrowSame DEF Shaped, Only
  <2>6. /\ mode'[s] = "backward" /\ request'[s] = Q \cup {header(k)} /\ on'[s] = on[s] /\ good'[s] = good[s]
        /\ bad'[s] = g /\ tip'[s] = tip[s] /\ served'[s] = served[s]
    BY <1>1, <1>7, <2>4 DEF Shaped
  <2>7. on[s] \in Live' \cup {NoChain} /\ n > VBH
    BY <1>1, <1>2, <1>7, <2>5 DEF IfaceOK, IfaceInv, StoreGrows
  <2>8. IfaceOK(s)'
    BY <1>1, <1>2, <1>3, <1>4, <1>5, <2>3, <2>6, <2>7 DEF IfaceOK, IfaceInv, Modes, Searching
  <2>9. QED
    BY <2>5, <2>8, SyncStep
<1>8. QED
  BY <1>6, <1>7 DEF backward, g, Q

\* A set of requests that names no height it should not.
Asked(R) == R \subseteq Request /\ \A q \in R : /\ q.kind = "headers" => q.at > VBH
                                                /\ q.kind = "header" => q.at > 0

\* What the end of on_header asks for.
LEMMA AskedMore ==
    ASSUME SyncInv, NEW s \in Server, NEW n, NEW m, NEW k \in 1..(MaxHeight + 1),
           m = "catch_up" => k > VBH
    PROVE  Asked(others(s, n)) /\ Asked(others(s, n) \cup {ask(s, m, k)})
<1>1. Asked(others(s, n))
  BY OthersFacts DEF Asked
<1>2. k \in 0..(MaxHeight + 1) /\ k > 0
  BY MaxHeightFacts
<1>3. /\ header(k) \in Request /\ header(k).kind = "header" /\ header(k).at = k
      /\ headers(k) \in Request /\ headers(k).kind = "headers" /\ headers(k).at = k
  BY <1>2, RequestFacts
<1>4. ask(s, m, k) = header(k) \/ (ask(s, m, k) = headers(k) /\ k > VBH)
  BY DEF ask
<1>5. QED
  BY <1>1, <1>2, <1>3, <1>4 DEF Asked

\* A step of the search: the interface stands on a chain, with a new interval.
LEMMA SyncSearch ==
    ASSUME SyncInv, HeldInv', NEW s \in Server, StoreGrows, tip[s] \in Header,
           NEW o \in Live', NEW m \in {"binary", "default", "catch_up"}, NEW R, Asked(R),
           NEW G \in 1..MaxHeight, NEW B \in Header \ {Genesis},
           Height[B] <= VBH => B = Trunk[Height[B] + 1],
           Go(s, m, R), on' = [on EXCEPT ![s] = o], good' = [good EXCEPT ![s] = G],
           bad' = [bad EXCEPT ![s] = B], UNCHANGED <<served, tip, verified>>
    PROVE  SyncInv' /\ [Next]_storeVars
<1>1. Shaped /\ IfaceOK(s)
  BY SyncParts
<1>2. Shaped' /\ Only(s)
  BY <1>1 DEF Shaped, Only, Go
<1>3. /\ mode'[s] = m /\ request'[s] = R /\ on'[s] = o /\ good'[s] = G
      /\ bad'[s] = B /\ tip'[s] = tip[s] /\ served'[s] = served[s]
  BY <1>1 DEF Shaped, Go
<1>4. o # NoChain
  <2>1. TypeOK'
    BY DEF StoreGrows, StoreInv
  <2>2. Live' \subseteq Chain
    BY <2>1 DEF TypeOK, Live
  <2>3. QED
    BY <2>2, ServerAssumption
<1>5. B # NoHeader /\ tip[s] # NoHeader
  BY HeaderAssumption
<1>6. G \in 0..MaxHeight /\ G > 0
  BY MaxHeightFacts
<1>7. IfaceOK(s)'
  BY <1>1, <1>3, <1>4, <1>5, <1>6 DEF IfaceOK, IfaceInv, Modes, Searching, Asked
<1>8. QED
  BY <1>2, <1>7, SyncStep

\* Another branch takes the fork's file: the root has not the new header either.
LEMMA ConflictReplaces ==
    ASSUME StoreInv, NEW o \in Live, NEW g \in Header, NEW B \in Header \ {Genesis}, swapping = NoSwap,
           (holders(g) = {} /\ B = g) \/ (holders(g) # {} /\ Height[B] = Height[g] + 1 /\ g # Genesis),
           can_connect(o, B, FALSE), Height[B] \in Base, ~check_header(blockchains[Height[B]], B),
           ~check_header(blockchains[parent[Height[B]]], g),
           Save(written(Height[B], <<B>>, 0), Height[B])
    PROVE  replace(o, B)
<1> DEFINE b == Height[B]
<1>1. b \in Nat \ {0} /\ ROOT = 0
  BY HeightFacts DEF ROOT
<1>2. b \in Base \ {ROOT} /\ Base = {ROOT, b} /\ b > VERIFICATION_BLOCK_HEIGHT /\ parent[b] = ROOT
  BY <1>1, StoreTypes DEF StoreInv
<1>3. holders(g) = {} /\ B = g
  <2>1. SUFFICES ASSUME holders(g) # {}, b = Height[g] + 1, g # Genesis PROVE FALSE
    OBVIOUS
  <2>2. ~check_header(blockchains[ROOT], g)
    BY <1>2
  <2>3. PICK c \in Base : check_header(blockchains[c], g)
    BY <2>1, <2>2 DEF holders
  <2>4. c = b
    BY <1>2, <2>2, <2>3
  <2>5. Height[g] \in Nat /\ ~(Height[g] >= b) /\ Height[g] >= ROOT
    BY <1>1, <2>1, HeightFacts
  <2>6. owner(b, Height[g]) = ROOT /\ owner(ROOT, Height[g]) = ROOT
    BY <1>2, <2>5, OwnerFacts
  <2>7. base_height(blockchains[b]) = b /\ base_height(blockchains[ROOT]) = ROOT
    BY <1>2, BaseOf DEF StoreInv
  <2>8. read_header(blockchains[b], Height[g]) = read_header(blockchains[ROOT], Height[g])
    BY <2>6, <2>7 DEF read_header, header_in
  <2>9. QED
    BY <2>1, <2>2, <2>3, <2>4, <2>8 DEF check_header
<1>4. QED
  BY <1>2, <1>3 DEF replace, replaceable

\* A new fork leaves the root's chain, above the checkpoint.
LEMMA NewChainForks ==
    ASSUME StoreInv, TrunkKept, MaxForks <= 1, NEW o \in Live, NEW B \in Header \ {Genesis}, swapping = NoSwap,
           Height[B] <= VBH => B = Trunk[Height[B] + 1],
           can_connect(o, B, FALSE), Height[B] \notin Base, Cardinality(Base) <= MaxForks,
           height(o) > Height[B] - 1, ~check_header(o, B),
           new_file(o, Height[B], <<B>>), UNCHANGED <<swapping, crashes>>
    PROVE  fork(o, B)
<1>1. Height[B] \in Nat \ {0} /\ Prev[B] \in Header /\ Height[Prev[B]] = Height[B] - 1
  BY HeightFacts
<1>2. Height[B] > VBH
  BY <1>1, ProvenHeld, MaxHeightFacts
<1>3. height(o) >= Height[B]
  BY <1>1, HeightOfChain
<1>4. read_header(o, Height[B] - 1) = Prev[B]
  BY DEF can_connect
<1>5. check_header(o, Prev[B])
  BY <1>1, <1>4 DEF check_header
<1>6. Base = {ROOT}
  <2>1. ROOT \in Base
    BY StoreTypes
  <2>2. SUFFICES ASSUME NEW b \in Base \ {ROOT} PROVE FALSE
    BY <2>1
  <2>3. Base = {ROOT, b} /\ b # ROOT
    BY <2>2 DEF StoreInv
  <2>4. IsFiniteSet({ROOT}) /\ Cardinality({ROOT}) = 1
    BY FS_Singleton
  <2>5. {ROOT, b} = {ROOT} \cup {b} /\ b \notin {ROOT}
    BY <2>3
  <2>6. Cardinality({ROOT} \cup {b}) = Cardinality({ROOT}) + 1
    BY <2>4, <2>5, FS_AddElement
  <2>7. Cardinality(Base) = 1 + 1
    BY <2>3, <2>4, <2>5, <2>6, Zenon
  <2>8. QED
    BY <2>7, HeaderAssumption
<1>7. o = blockchains[ROOT]
  BY <1>6, HeightOfChain
<1>8. o \in holders(Prev[B])
  BY <1>5, <1>7 DEF holders
<1>9. QED
  BY <1>2, <1>3, <1>8 DEF fork, branches, VBH

\* A step of the binary search, and its end.
LEMMA SyncBinary ==
    ASSUME SyncInv, MaxForks <= 1, HeldInv', NEW s \in Server, NEW n \in Nat, answers(s, n),
           n <= Height[served[s]], proven(s, n), binary(s, n, at(served[s], n))
    PROVE  SyncInv' /\ [Next]_storeVars
<1> DEFINE g == at(served[s], n)
           Q == others(s, n)
           G == good_after(s, n, g)
           B == IF holders(g) = {} THEN g ELSE bad[s]
<1>1. StoreInv /\ crashes = 0 /\ TrunkKept /\ Shaped /\ IfaceOK(s)
  BY SyncParts
<1>2. /\ n > 0 /\ n <= MaxHeight /\ g \in Header \ {Genesis} /\ Height[g] = n
      /\ n <= VBH => g = Trunk[n + 1]
      /\ holders(g) = {} => n > VBH
      /\ tip[s] \in Header /\ tip[s] = served[s] /\ swapping = NoSwap
  BY AnswerFacts
<1>3. VBH \in Nat \ {0} /\ MaxHeight \in Nat /\ VBH <= MaxHeight
  BY MaxHeightFacts
<1>4. mode[s] = "binary"
  BY DEF binary
<1>5. PICK o \in IF holders(g) = {} THEN {on[s]} ELSE holders(g) :
        \/ connection_down(s)
        \/ /\ \/ narrow(s, n, G, B) /\ on' = [on EXCEPT ![s] = o]
              \/ /\ Height[B] = G + 1 /\ can_connect(o, B, FALSE)
                 /\ \/ joining(s, n, B) /\ on' = [on EXCEPT ![s] = o]
                    \/ reorg(s, n, g, B) /\ on' = [on EXCEPT ![s] = blockchains[parent[Height[B]]]]
                    \/ conflict(s, n, g, B) /\ on' = [on EXCEPT ![s] = blockchains[Height[B]]]
                    \/ new_chain(s, n, o, G, B) /\ on' = [on EXCEPT ![s] = blockchains'[Height[B]]]
                    \/ catching_up(s, n, o, G, B) /\ on' = [on EXCEPT ![s] = o]
                    \/ left_alone(s, n, o, G, B) /\ on' = [on EXCEPT ![s] = o]
           /\ good' = [good EXCEPT ![s] = G]
           /\ bad' = [bad EXCEPT ![s] = B]
           /\ UNCHANGED <<served, tip, verified>>
  BY Zenon DEF binary
<1>6. bad[s] \in Header \ {Genesis} /\ (Height[bad[s]] <= VBH => bad[s] = Trunk[Height[bad[s]] + 1])
  BY <1>1, <1>4 DEF IfaceOK, IfaceInv
<1>7. B \in Header \ {Genesis} /\ (Height[B] <= VBH => B = Trunk[Height[B] + 1])
  BY <1>2, <1>3, <1>6
<1>8. G \in 1..MaxHeight
  <2>1. good[s] \in 1..MaxHeight
    BY <1>1, <1>4 DEF IfaceOK, IfaceInv
  <2>2. QED
    BY <1>2, <1>3, <2>1 DEF good_after
<1>9. o \in Live
  <2>1. on[s] \in Live
    BY <1>1, <1>4 DEF IfaceOK, IfaceInv
  <2>2. QED
    BY <1>1, <1>5, <2>1, HolderFacts
<1>10. Height[B] \in 1..MaxHeight
  BY <1>7, HeightFacts, MaxHeightFacts
<1>11. \/ holders(g) = {} /\ B = g
       \/ holders(g) # {} /\ G = Height[g] /\ g # Genesis
  BY <1>2 DEF good_after
<1>12. Asked(Q)
  BY OthersFacts DEF Asked
<1> HIDE DEF B, G, Q, g
<1>13. ASSUME StoreGrows, NEW p \in Live, NEW m \in {"binary", "default", "catch_up"}, NEW R, Asked(R),
              Go(s, m, R), on' = [on EXCEPT ![s] = p], good' = [good EXCEPT ![s] = G],
              bad' = [bad EXCEPT ![s] = B], UNCHANGED <<served, tip, verified>>
       PROVE  SyncInv' /\ [Next]_storeVars
  <2>1. p \in Live'
    BY <1>13 DEF StoreGrows
  <2>2. QED
    BY <1>2, <1>7, <1>8, <1>13, <2>1, SyncSearch
<1>14. CASE connection_down(s)
  BY <1>14, SyncDown
<1>15. ASSUME good' = [good EXCEPT ![s] = G], bad' = [bad EXCEPT ![s] = B], UNCHANGED <<served, tip, verified>>,
              narrow(s, n, G, B), on' = [on EXCEPT ![s] = o]
       PROVE  SyncInv' /\ [Next]_storeVars
  <2> DEFINE k == (Height[B] + G) \div 2
  <2>1. k \in 1..MaxHeight
    BY <1>8, <1>10, HalfFacts
  <2>2. Go(s, "binary", Q \cup {header(k)}) /\ UNCHANGED storeVars
    BY <1>15 DEF narrow, Q
  <2> HIDE DEF k
  <2>3. k \in 1..(MaxHeight + 1) /\ ask(s, "binary", k) = header(k)
    BY <1>3, <2>1 DEF ask
  <2>4. Asked(Q \cup {ask(s, "binary", k)})
    BY <2>3, AskedMore DEF Q
  <2>5. StoreGrows
    BY <1>1, <2>2, GrowSame
  <2>6. QED
    BY <1>9, <1>13, <1>15, <2>2, <2>3, <2>4, <2>5
<1>16. ASSUME good' = [good EXCEPT ![s] = G], bad' = [bad EXCEPT ![s] = B], UNCHANGED <<served, tip, verified>>,
              joining(s, n, B) \/ left_alone(s, n, o, G, B), on' = [on EXCEPT ![s] = o]
       PROVE  SyncInv' /\ [Next]_storeVars
  <2>1. Go(s, "default", Q) /\ UNCHANGED storeVars
    BY <1>16 DEF joining, left_alone, Q
  <2>2. StoreGrows
    BY <1>1, <2>1, GrowSame
  <2>3. QED
    BY <1>9, <1>12, <1>13, <1>16, <2>1, <2>2
<1>17. ASSUME good' = [good EXCEPT ![s] = G], bad' = [bad EXCEPT ![s] = B], UNCHANGED <<served, tip, verified>>,
              reorg(s, n, g, B), on' = [on EXCEPT ![s] = blockchains[parent[Height[B]]]]
       PROVE  SyncInv' /\ [Next]_storeVars
  <2>1. Go(s, "default", Q) /\ UNCHANGED storeVars /\ Height[B] \in Base
    BY <1>17 DEF reorg, Q
  <2>2. blockchains[parent[Height[B]]] \in Live
    BY <1>1, <2>1 DEF StoreInv, TypeOK, Live
  <2>3. StoreGrows
    BY <1>1, <2>1, GrowSame
  <2>4. QED
    BY <1>12, <1>13, <1>17, <2>1, <2>2, <2>3
<1>18. ASSUME good' = [good EXCEPT ![s] = G], bad' = [bad EXCEPT ![s] = B], UNCHANGED <<served, tip, verified>>,
              Height[B] = G + 1, can_connect(o, B, FALSE),
              conflict(s, n, g, B), on' = [on EXCEPT ![s] = blockchains[Height[B]]]
       PROVE  SyncInv' /\ [Next]_storeVars
  <2>1. /\ Height[B] \in Base /\ ~check_header(blockchains[Height[B]], B)
        /\ ~check_header(blockchains[parent[Height[B]]], g)
        /\ Save(written(Height[B], <<B>>, 0), Height[B])
        /\ Go(s, "catch_up", Q \cup {ask(s, "catch_up", Height[B] + 1)})
    BY <1>18 DEF conflict, Q
  <2>2. (holders(g) = {} /\ B = g) \/ (holders(g) # {} /\ Height[B] = Height[g] + 1 /\ g # Genesis)
    BY <1>11, <1>18
  <2>3. replace(o, B)
    BY <1>1, <1>2, <1>7, <1>9, <1>18, <2>1, <2>2, ConflictReplaces
  <2>4. StoreGrows
    BY <1>1, <1>7, <1>9, <2>3, GrowReplace
  <2>5. Height[B] > VBH
    BY <2>3 DEF replace, replaceable, VBH
  <2>6. Height[B] + 1 \in 1..(MaxHeight + 1) /\ Height[B] + 1 > VBH
    BY <1>3, <1>10, <2>5
  <2>7. Asked(Q \cup {ask(s, "catch_up", Height[B] + 1)})
    BY <2>6, AskedMore DEF Q
  <2>8. blockchains[Height[B]] \in Live
    BY <2>1 DEF Live
  <2>9. QED
    BY <1>13, <1>18, <2>1, <2>4, <2>7, <2>8
<1>19. ASSUME good' = [good EXCEPT ![s] = G], bad' = [bad EXCEPT ![s] = B], UNCHANGED <<served, tip, verified>>,
              Height[B] = G + 1, can_connect(o, B, FALSE),
              new_chain(s, n, o, G, B), on' = [on EXCEPT ![s] = blockchains'[Height[B]]]
       PROVE  SyncInv' /\ [Next]_storeVars
  <2>1. /\ Height[B] \notin Base /\ Cardinality(Base) <= MaxForks /\ height(o) > G /\ ~check_header(o, B)
        /\ new_file(o, Height[B], <<B>>) /\ UNCHANGED <<swapping, crashes>>
        /\ Go(s, "catch_up", Q \cup {ask(s, "catch_up", Height[B] + 1)})
    BY <1>19 DEF new_chain, Q
  <2>2. height(o) > Height[B] - 1
    BY <1>8, <1>19, <2>1
  <2>3. fork(o, B)
    BY <1>1, <1>2, <1>7, <1>9, <1>19, <2>1, <2>2, NewChainForks
  <2>4. StoreGrows /\ blockchains'[Height[B]] \in Live'
    BY <1>1, <1>7, <1>9, <2>3, GrowFork
  <2>5. Height[B] > VBH
    BY <2>3 DEF fork, branches, VBH
  <2>6. Height[B] + 1 \in 1..(MaxHeight + 1) /\ Height[B] + 1 > VBH
    BY <1>3, <1>10, <2>5
  <2>7. Asked(Q \cup {ask(s, "catch_up", Height[B] + 1)})
    BY <2>6, AskedMore DEF Q
  <2>8. PICK p \in Live' : p = blockchains'[Height[B]]
    BY <2>4
  <2>9. on' = [on EXCEPT ![s] = p]
    BY <1>19, <2>8
  <2>10. QED
    BY <1>2, <1>7, <1>8, <1>19, <2>1, <2>4, <2>7, <2>9, SyncSearch
<1>20. ASSUME good' = [good EXCEPT ![s] = G], bad' = [bad EXCEPT ![s] = B], UNCHANGED <<served, tip, verified>>,
              Height[B] = G + 1, catching_up(s, n, o, G, B), on' = [on EXCEPT ![s] = o]
       PROVE  SyncInv' /\ [Next]_storeVars
  <2>1. Go(s, "catch_up", Q \cup {ask(s, "catch_up", G + 1)}) /\ UNCHANGED storeVars /\ height(o) = G
    BY <1>20 DEF catching_up, Q
  <2>2. G + 1 \in 1..(MaxHeight + 1) /\ G + 1 > VBH
    BY <1>1, <1>3, <1>8, <1>9, <2>1, HeightOfChain
  <2>3. Asked(Q \cup {ask(s, "catch_up", G + 1)})
    BY <2>2, AskedMore DEF Q
  <2>4. StoreGrows
    BY <1>1, <2>1, GrowSame
  <2>5. QED
    BY <1>9, <1>13, <1>20, <2>1, <2>3, <2>4
<1>21. QED
  BY <1>5, <1>14, <1>15, <1>16, <1>17, <1>18, <1>19, <1>20

\* The next header of a chain that is caught up, or one that does not fit.
LEMMA SyncCatchesUp ==
    ASSUME SyncInv, HeldInv', NEW s \in Server, NEW n \in Nat, answers(s, n), n <= Height[served[s]],
           proven(s, n), catches_up(s, n, at(served[s], n))
    PROVE  SyncInv' /\ [Next]_storeVars
<1> DEFINE g == at(served[s], n)
           Q == others(s, n)
<1>1. StoreInv /\ crashes = 0 /\ TrunkKept /\ Shaped /\ IfaceOK(s)
  BY SyncParts
<1>2. /\ n > 0 /\ n <= MaxHeight /\ g \in Header \ {Genesis} /\ Height[g] = n
      /\ n <= VBH => g = Trunk[n + 1]
      /\ tip[s] \in Header /\ tip[s] = served[s]
  BY AnswerFacts
<1>3. VBH \in Nat \ {0} /\ MaxHeight \in Nat /\ VBH <= MaxHeight
  BY MaxHeightFacts
<1>4. mode[s] = "catch_up" /\ on[s] \in Live /\ on[s] # NoChain /\ g # NoHeader /\ tip[s] # NoHeader
  <2>1. mode[s] = "catch_up" /\ g # NoHeader /\ tip[s] # NoHeader
    BY <1>2, HeaderAssumption DEF catches_up
  <2>2. QED
    BY <1>1, <2>1 DEF IfaceOK, IfaceInv
<1>5. UNCHANGED <<served, tip, on, good, verified>>
  BY DEF catches_up
<1>6. Asked(Q)
  BY OthersFacts DEF Asked
<1> HIDE DEF g, Q
<1>7. ASSUME StoreGrows, NEW m \in {"default", "backward", "catch_up"}, NEW R, Asked(R), Go(s, m, R),
             bad' = bad \/ bad' = [bad EXCEPT ![s] = g], m = "backward" => bad' # bad \/ bad[s] = g
      PROVE  SyncInv' /\ [Next]_storeVars
  <2>1. Shaped' /\ Only(s)
    BY <1>1, <1>5, <1>7 DEF Shaped, Only, Go
  <2>2. /\ mode'[s] = m /\ request'[s] = R /\ on'[s] = on[s] /\ good'[s] = good[s]
        /\ tip'[s] = tip[s] /\ served'[s] = served[s] /\ bad'[s] \in {bad[s], g}
        /\ m = "backward" => bad'[s] = g
    BY <1>1, <1>5, <1>7 DEF Shaped, Go
  <2>3. on[s] \in Live'
    BY <1>4, <1>7 DEF StoreGrows
  <2>4. IfaceOK(s)'
    BY <1>1, <1>2, <1>4, <1>7, <2>2, <2>3 DEF IfaceOK, IfaceInv, Modes, Searching, Asked
  <2>5. QED
    BY <1>7, <2>1, <2>4, SyncStep
<1>8. CASE /\ can_connect(on[s], g, TRUE) /\ save_header(on[s], g) /\ UNCHANGED bad
           /\ IF n < Height[tip[s]]
              THEN Go(s, "catch_up", Q \cup {ask(s, "catch_up", n + 1)})
              ELSE Go(s, "default", Q)
  <2>1. StoreGrows
    BY <1>1, <1>2, <1>4, <1>8, GrowSaveHeader
  <2>2. n + 1 \in 1..(MaxHeight + 1) /\ n + 1 > VBH
    <3>1. height(on[s]) = n - 1
      BY <1>2, <1>8 DEF can_connect
    <3>2. QED
      BY <1>1, <1>2, <1>3, <1>4, <3>1, HeightOfChain
  <2>3. Asked(Q \cup {ask(s, "catch_up", n + 1)})
    BY <2>2, AskedMore DEF Q
  <2>4. QED
    BY <1>6, <1>7, <1>8, <2>1, <2>3
<1>9. CASE /\ UNCHANGED storeVars /\ bad' = [bad EXCEPT ![s] = g]
           /\ IF n > 1 THEN Go(s, "backward", Q \cup {header(n - 1)}) ELSE Go(s, "default", Q)
  <2>1. StoreGrows
    BY <1>1, <1>9, GrowSame
  <2>2. bad' # bad \/ bad[s] = g
    BY <1>1, <1>9 DEF Shaped
  <2>3. CASE n > 1
    <3>1. n - 1 \in 1..(MaxHeight + 1) /\ ask(s, "backward", n - 1) = header(n - 1)
      BY <1>2, <1>3, <2>3 DEF ask
    <3>2. Asked(Q \cup {ask(s, "backward", n - 1)})
      BY <3>1, AskedMore DEF Q
    <3>3. QED
      BY <1>7, <1>9, <2>1, <2>2, <2>3, <3>1, <3>2
  <2>4. CASE ~(n > 1)
    BY <1>6, <1>7, <1>9, <2>1, <2>4
  <2>5. QED
    BY <2>3, <2>4
<1>10. \/ /\ can_connect(on[s], g, TRUE) /\ save_header(on[s], g) /\ UNCHANGED bad
          /\ IF n < Height[tip[s]]
             THEN Go(s, "catch_up", Q \cup {ask(s, "catch_up", n + 1)})
             ELSE Go(s, "default", Q)
       \/ /\ UNCHANGED storeVars /\ bad' = [bad EXCEPT ![s] = g]
          /\ IF n > 1 THEN Go(s, "backward", Q \cup {header(n - 1)}) ELSE Go(s, "default", Q)
  <2>1. catches_up(s, n, g)
    BY DEF g
  <2>2. QED
    BY <2>1 DEF catches_up, Q
<1>11. QED
  BY <1>8, <1>9, <1>10

-----------------------------------------------------------------------------
(* on_block_headers and the proof.                                         *)

\* A step that leaves the interface's own state alone, but for its requests.
LEMMA SyncGoesOn ==
    ASSUME SyncInv, HeldInv', NEW s \in Server, StoreGrows, tip[s] \in Header,
           NEW m \in {mode[s], "default"}, m \notin {"down", "verification"}, NEW R, R \subseteq Request,
           \A q \in R : /\ q.kind = "headers" => on[s] # NoChain /\ q.at > VBH
                        /\ q.kind = "header" => q.at > 0,
           Go(s, m, R), UNCHANGED <<served, tip, on, good, bad, verified>>
    PROVE  SyncInv' /\ [Next]_storeVars
<1>1. Shaped /\ IfaceOK(s)
  BY SyncParts
<1>2. Shaped' /\ Only(s)
  BY <1>1 DEF Shaped, Only, Go
<1>3. /\ mode'[s] = m /\ request'[s] = R /\ on'[s] = on[s] /\ good'[s] = good[s]
      /\ bad'[s] = bad[s] /\ tip'[s] = tip[s] /\ served'[s] = served[s]
  BY <1>1 DEF Shaped, Go
<1>4. tip[s] # NoHeader
  BY HeaderAssumption
<1>5. on[s] \in Live' \cup {NoChain}
  BY <1>1 DEF IfaceOK, IfaceInv, StoreGrows
<1>6. IfaceOK(s)'
  BY <1>1, <1>3, <1>4, <1>5 DEF IfaceOK, IfaceInv, Modes, Searching
<1>7. QED
  BY <1>2, <1>6, SyncStep

\* The end of a chunk.
LEMMA SyncMore ==
    ASSUME SyncInv, HeldInv', NEW s \in Server, StoreGrows, tip[s] \in Header,
           mode[s] \notin {"down", "verification"}, on[s] # NoChain,
           NEW R \in SUBSET request[s], NEW e \in VBH..MaxHeight, NEW h,
           more(s, R, e, h), UNCHANGED <<served, tip, on, good, bad, verified>>
    PROVE  SyncInv' /\ [Next]_storeVars
<1>1. /\ R \subseteq Request
      /\ \A q \in R : /\ q.kind = "headers" => on[s] # NoChain /\ q.at > VBH
                      /\ q.kind = "header" => q.at > 0
  <2>1. IfaceOK(s)
    BY SyncParts
  <2>2. QED
    BY <2>1 DEF IfaceOK, IfaceInv
<1>2. e + 1 \in 0..(MaxHeight + 1) /\ e + 1 > VBH
  BY MaxHeightFacts
<1>3. headers(e + 1) \in Request /\ headers(e + 1).kind = "headers" /\ headers(e + 1).at > VBH
  BY <1>2, RequestFacts
<1>4. Go(s, mode[s], R \cup {headers(e + 1)}) \/ Go(s, "default", R)
  BY DEF more
<1>5. CASE Go(s, mode[s], R \cup {headers(e + 1)})
  <2> DEFINE R1 == R \cup {headers(e + 1)}
  <2>1. /\ R1 \subseteq Request
        /\ \A q \in R1 : /\ q.kind = "headers" => on[s] # NoChain /\ q.at > VBH
                         /\ q.kind = "header" => q.at > 0
    BY <1>1, <1>3
  <2>2. Go(s, mode[s], R1)
    BY <1>5
  <2> HIDE DEF R1
  <2>3. QED
    BY <2>1, <2>2, SyncGoesOn
<1>6. CASE Go(s, "default", R)
  BY <1>1, <1>6, SyncGoesOn
<1>7. QED
  BY <1>4, <1>5, <1>6

\* A chunk that is not empty is a linked run of headers.
LEMMA ChunkFacts ==
    ASSUME SyncInv, NEW s \in Server, NEW n \in Nat \ {0}, chunk(s, n) # <<>>
    PROVE  /\ chunk(s, n) \in Chunks /\ Len(chunk(s, n)) \in Nat \ {0}
           /\ n + Len(chunk(s, n)) - 1 <= MaxHeight
<1> DEFINE t == served[s]
           e == Min({Height[t], n + ChunkSize - 1})
           L == e - n + 1
           d == chunk(s, n)
<1>1. t \in Header /\ Height[t] \in Nat /\ Height[t] <= MaxHeight /\ MaxHeight \in Nat
  <2>1. Shaped
    BY SyncParts
  <2>2. QED
    BY <2>1, MaxHeightFacts DEF Shaped
<1>2. ChunkSize \in Nat \ {0}
  BY ServerAssumption
<1>3. e \in Int /\ e <= Height[t] /\ L <= ChunkSize
  <2>1. Height[t] \in Int /\ n + ChunkSize - 1 \in Int
    BY <1>1, <1>2
  <2>2. e = IF Height[t] <= n + ChunkSize - 1 THEN Height[t] ELSE n + ChunkSize - 1
    BY <2>1, MaxMin, Zenon
  <2> HIDE DEF e
  <2>3. QED
    BY <1>1, <1>2, <2>2
<1>4. d = [i \in 1..L |-> at(t, n + i - 1)]
  BY DEF chunk
<1> HIDE DEF d, e, t
<1>5. L \in Nat \ {0}
  <2>1. SUFFICES ASSUME ~(L >= 1) PROVE d = <<>>
    BY <1>3 DEF d
  <2>2. 1..L = {}
    BY <1>3, <2>1
  <2>3. DOMAIN d = {} /\ d = [i \in DOMAIN d |-> d[i]]
    BY <1>4, <2>2
  <2>4. d \in [1..0 -> Header]
    BY <2>3
  <2>5. d \in Seq(Header) /\ Len(d) = 0
    BY <2>4
  <2>6. QED
    BY <2>5, EmptySeq
<1>6. \A i \in 1..L : n + i - 1 \in 1..Height[t]
  BY <1>1, <1>3, <1>5
<1>7. \A i \in 1..L : d[i] \in Header /\ Height[d[i]] = n + i - 1
  BY <1>1, <1>4, <1>6, AtFacts
<1>8. \A i \in 1..L : d[i] # Genesis
  BY <1>6, <1>7, HeightFacts
<1>9. \A i \in 2..L : Prev[d[i]] = d[i - 1]
  <2> SUFFICES ASSUME NEW i \in 2..L PROVE Prev[d[i]] = d[i - 1]
    OBVIOUS
  <2>1. /\ i - 1 \in 1..L /\ i \in 1..L /\ n + (i - 1) - 1 \in 0..(Height[t] - 1)
        /\ (n + (i - 1) - 1) + 1 = n + i - 1
    BY <1>1, <1>3, <1>5, <1>6
  <2>2. at(t, n + (i - 1) - 1) = Prev[at(t, n + i - 1)]
    BY <1>1, <2>1, AtFacts
  <2>3. QED
    BY <1>4, <2>1, <2>2
<1>10. d \in [1..L -> Header \ {Genesis}] /\ L \in 1..ChunkSize
  <2>1. L \in 1..ChunkSize
    BY <1>2, <1>3, <1>5
  <2> HIDE DEF L
  <2>2. DOMAIN d = 1..L /\ d = [i \in 1..L |-> d[i]]
    BY <1>4
  <2>3. \A i \in 1..L : d[i] \in Header \ {Genesis}
    BY <1>7, <1>8
  <2>4. QED
    BY <2>1, <2>2, <2>3
<1>11. d \in Chunks
  BY <1>9, <1>10, ServerAssumption
<1>12. Len(d) = L
  BY <1>5, <1>10
<1>13. n + L - 1 <= MaxHeight
  BY <1>1, <1>3
<1>14. QED
  BY <1>5, <1>11, <1>12, <1>13 DEF d

\* The answer to a request for a chunk.
LEMMA SyncChunk ==
    ASSUME SyncInv, HeldInv', NEW s \in Server, NEW n \in Nat, on_block_headers(s, n)
    PROVE  SyncInv' /\ [Next]_storeVars
<1> DEFINE data == chunk(s, n)
           e == n + Len(data) - 1
           R == request[s] \ {headers(n)}
           o == on[s]
<1>1. StoreInv /\ crashes = 0 /\ TrunkKept /\ Shaped /\ IfaceOK(s)
  BY SyncParts
<1>2. headers(n) \in request[s] /\ headers(n).kind = "headers" /\ headers(n).at = n /\ headers(n) # proof
  BY RequestFacts DEF on_block_headers
<1>3. /\ n > VBH /\ o \in Live /\ o # NoChain /\ tip[s] \in Header
      /\ mode[s] \notin {"down", "verification"}
  BY <1>1, <1>2 DEF IfaceOK, IfaceInv
<1>4. VBH \in Nat \ {0} /\ MaxHeight \in Nat
  BY MaxHeightFacts
<1>5. R \in SUBSET request[s]
  OBVIOUS
<1>6. /\ R \subseteq Request
      /\ \A q \in R : /\ q.kind = "headers" => on[s] # NoChain /\ q.at > VBH
                      /\ q.kind = "header" => q.at > 0
  BY <1>1 DEF IfaceOK, IfaceInv
<1>7. data # <<>> => data \in Chunks /\ e \in VBH..MaxHeight
  <2>1. SUFFICES ASSUME data # <<>> PROVE data \in Chunks /\ e \in VBH..MaxHeight
    OBVIOUS
  <2>2. n \in Nat \ {0}
    BY <1>3, <1>4
  <2>3. data \in Chunks /\ Len(data) \in Nat \ {0} /\ e <= MaxHeight
    BY <2>1, <2>2, ChunkFacts
  <2> HIDE DEF data
  <2>4. QED
    BY <1>3, <1>4, <2>3
<1>8. \/ connection_down(s)
      \/ /\ data # <<>>
         /\ \/ Go(s, mode[s], R) /\ UNCHANGED storeVars
            \/ \E h : more(s, R, e, h) /\ UNCHANGED storeVars
            \/ connect_chunk(o, data) /\ more(s, R, e, e)
         /\ UNCHANGED <<served, tip, on, good, bad, verified>>
  BY Zenon DEF on_block_headers
<1> HIDE DEF data, e, R
<1>9. CASE connection_down(s)
  BY <1>9, SyncDown
<1>10. ASSUME Go(s, mode[s], R), UNCHANGED storeVars, UNCHANGED <<served, tip, on, good, bad, verified>>
       PROVE  SyncInv' /\ [Next]_storeVars
  <2>1. StoreGrows
    BY <1>1, <1>10, GrowSame
  <2>2. QED
    BY <1>3, <1>6, <1>10, <2>1, SyncGoesOn
<1>11. ASSUME data # <<>>, NEW h, more(s, R, e, h), UNCHANGED storeVars,
              UNCHANGED <<served, tip, on, good, bad, verified>>
       PROVE  SyncInv' /\ [Next]_storeVars
  <2>1. StoreGrows
    BY <1>1, <1>11, GrowSame
  <2>2. QED
    BY <1>3, <1>5, <1>7, <1>11, <2>1, SyncMore
<1>12. ASSUME data # <<>>, connect_chunk(o, data), more(s, R, e, e),
              UNCHANGED <<served, tip, on, good, bad, verified>>
       PROVE  SyncInv' /\ [Next]_storeVars
  <2>1. StoreGrows
    BY <1>1, <1>3, <1>7, <1>12, GrowChunk
  <2>2. QED
    BY <1>3, <1>5, <1>7, <1>12, <2>1, SyncMore
<1>13. QED
  BY <1>8, <1>9, <1>10, <1>11, <1>12

\* The proof of the checkpoint.
LEMMA SyncProof ==
    ASSUME SyncInv, HeldInv', NEW s \in Server, on_proof(s)
    PROVE  SyncInv' /\ [Next]_storeVars
<1> DEFINE R == request[s] \ {proof}
<1>1. StoreInv /\ crashes = 0 /\ TrunkKept /\ Shaped /\ IfaceOK(s)
  BY SyncParts
<1>2. swapping = NoSwap /\ proof \in request[s] /\ R \in SUBSET request[s]
  BY DEF on_proof
<1>3. /\ tip[s] \in Header /\ tip[s] = served[s] /\ Height[tip[s]] > VBH /\ mode[s] # "down"
      /\ on[s] \in Live \cup {NoChain}
  BY <1>1, <1>2 DEF IfaceOK, IfaceInv
<1>4. VBH \in VBH..MaxHeight
  BY MaxHeightFacts
<1>5. \/ connection_down(s)
      \/ /\ mode[s] = "verification" /\ verified' = [verified EXCEPT ![s] = "root"]
         /\ _process_latest_tip(s, tip[s], R) /\ UNCHANGED <<served, tip>>
      \/ /\ mode[s] # "verification" /\ on[s] # NoChain
         /\ more(s, R, VBH, height(on[s]))
         /\ UNCHANGED <<storeVars, served, tip, on, good, bad, verified>>
  BY Zenon DEF on_proof
<1> HIDE DEF R
<1>6. CASE connection_down(s)
  BY <1>6, SyncDown
<1>7. CASE /\ mode[s] = "verification" /\ verified' = [verified EXCEPT ![s] = "root"]
           /\ _process_latest_tip(s, tip[s], R) /\ UNCHANGED <<served, tip>>
  <2>1. served' = [served EXCEPT ![s] = tip[s]] /\ tip' = [tip EXCEPT ![s] = tip[s]]
    BY <1>1, <1>3, <1>7 DEF Shaped
  <2>2. verified' \in [Server -> {"no", "asked", "root"}]
    BY <1>1, <1>7 DEF Shaped
  <2>3. QED
    BY <1>2, <1>3, <1>7, <2>1, <2>2, SyncTip
<1>8. CASE /\ mode[s] # "verification" /\ on[s] # NoChain
           /\ more(s, R, VBH, height(on[s]))
           /\ UNCHANGED <<storeVars, served, tip, on, good, bad, verified>>
  <2>1. StoreGrows
    BY <1>1, <1>8, GrowSame
  <2>2. QED
    BY <1>2, <1>3, <1>4, <1>8, <2>1, SyncMore
<1>9. QED
  BY <1>5, <1>6, <1>7, <1>8

-----------------------------------------------------------------------------
(* Every step.                                                             *)

\* A tip that a server says it has.
LEMMA SyncNotified ==
    ASSUME SyncInv, HeldInv', NEW s \in Server, NEW h \in Header, on_notify_header(s, h)
    PROVE  SyncInv' /\ [Next]_storeVars
<1>1. StoreInv /\ crashes = 0 /\ TrunkKept /\ Shaped /\ IfaceOK(s)
  BY SyncParts
<1>2. /\ swapping = NoSwap /\ mode[s] # "down" /\ Height[h] > VBH
      /\ served' = [served EXCEPT ![s] = h] /\ tip' = [tip EXCEPT ![s] = h]
  BY DEF on_notify_header, notified
<1>3. served'[s] = h /\ tip'[s] = h /\ h # NoHeader
  BY <1>1, <1>2, HeaderAssumption DEF Shaped
<1>4. request[s] \in SUBSET request[s]
  OBVIOUS
<1>5. CASE /\ mode[s] = "verification" /\ verified' = [verified EXCEPT ![s] = "asked"]
           /\ Go(s, "verification", {proof}) /\ UNCHANGED <<storeVars, on, good, bad, catch_up>>
  <2>1. StoreGrows /\ Shaped' /\ Only(s)
    BY <1>1, <1>2, <1>5, GrowSame DEF Shaped, Only, Go
  <2>2. /\ mode'[s] = "verification" /\ request'[s] = {proof} /\ on'[s] = on[s] /\ good'[s] = good[s]
        /\ bad'[s] = bad[s]
    BY <1>1, <1>5 DEF Shaped, Go
  <2>3. on[s] \in Live' \cup {NoChain}
    BY <1>1, <2>1 DEF IfaceOK, IfaceInv, StoreGrows
  <2>4. IfaceOK(s)'
    BY <1>1, <1>2, <1>3, <2>2, <2>3, RequestFacts DEF IfaceOK, IfaceInv, Modes, Searching
  <2>5. QED
    BY <2>1, <2>4, SyncStep
<1>6. CASE /\ mode[s] \in {"verification", "default"}
           /\ _process_latest_tip(s, h, request[s]) /\ UNCHANGED verified
  <2>1. verified' \in [Server -> {"no", "asked", "root"}]
    BY <1>1, <1>6 DEF Shaped
  <2>2. QED
    BY <1>2, <1>4, <1>6, <2>1, SyncTip
<1>7. CASE /\ mode[s] \in Searching
           /\ UNCHANGED <<storeVars, mode, on, good, bad, request, verified, catch_up>>
  <2>1. StoreGrows /\ Shaped' /\ Only(s)
    BY <1>1, <1>2, <1>7, GrowSame DEF Shaped, Only
  <2>2. on[s] \in Live' \cup {NoChain}
    BY <1>1, <2>1 DEF IfaceOK, IfaceInv, StoreGrows
  <2>3. IfaceOK(s)'
    BY <1>1, <1>2, <1>3, <1>7, <2>2 DEF IfaceOK, IfaceInv, Searching
  <2>4. QED
    BY <2>1, <2>3, SyncStep
<1>8. QED
  BY <1>5, <1>6, <1>7, Zenon DEF on_notify_header

\* A connection that is opened, and an answer nobody waits for any more.
LEMMA SyncQuiet ==
    ASSUME SyncInv, HeldInv', NEW s \in Server, new_interface(s) \/ \E n \in Nat : ignored(s, n)
    PROVE  SyncInv' /\ [Next]_storeVars
<1>1. StoreInv /\ crashes = 0 /\ TrunkKept /\ Shaped /\ IfaceOK(s)
  BY SyncParts
<1>2. CASE new_interface(s)
  <2>1. /\ mode[s] = "down" /\ Go(s, "verification", {})
        /\ UNCHANGED <<storeVars, served, tip, on, good, bad, verified, catch_up>>
    BY <1>2 DEF new_interface
  <2>2. StoreGrows /\ Shaped' /\ Only(s)
    BY <1>1, <2>1, GrowSame DEF Shaped, Only, Go
  <2>3. /\ mode'[s] = "verification" /\ request'[s] = {} /\ on'[s] = on[s] /\ good'[s] = good[s]
        /\ bad'[s] = bad[s] /\ tip'[s] = tip[s] /\ served'[s] = served[s]
    BY <1>1, <2>1 DEF Shaped, Go
  <2>4. on[s] \in Live' \cup {NoChain}
    BY <1>1, <2>2 DEF IfaceOK, IfaceInv, StoreGrows
  <2>5. IfaceOK(s)'
    BY <1>1, <2>1, <2>3, <2>4 DEF IfaceOK, IfaceInv, Modes, Searching
  <2>6. QED
    BY <2>2, <2>5, SyncStep
<1>3. ASSUME NEW n \in Nat, ignored(s, n) PROVE SyncInv' /\ [Next]_storeVars
  <2>1. /\ answers(s, n) /\ n <= Height[served[s]] /\ proven(s, n)
        /\ Go(s, "default", others(s, n))
        /\ UNCHANGED <<storeVars, served, tip, on, good, bad, verified, catch_up>>
    BY <1>3 DEF ignored
  <2>2. StoreGrows
    BY <1>1, <2>1, GrowSame
  <2>3. tip[s] \in Header
    BY <2>1, AnswerFacts
  <2>4. /\ others(s, n) \subseteq Request
        /\ \A q \in others(s, n) : /\ q.kind = "headers" => on[s] # NoChain /\ q.at > VBH
                                   /\ q.kind = "header" => q.at > 0
    BY OthersFacts
  <2>5. QED
    BY <2>1, <2>2, <2>3, <2>4, SyncGoesOn
<1>4. QED
  BY <1>2, <1>3

\* Nothing happens to the interfaces.
LEMMA SyncStore ==
    ASSUME SyncInv, HeldInv', Swap \/ UNCHANGED syncVars
    PROVE  SyncInv' /\ [Next]_storeVars
<1>1. StoreInv /\ crashes = 0 /\ TrunkKept /\ Shaped /\ \A s \in Server : IfaceOK(s)
  BY SyncParts
<1>2. UNCHANGED <<served, mode, tip, on, good, bad, request, verified, catch_up>>
  BY DEF Swap, syncVars, ifaceVars
<1>3. StoreGrows
  <2>1. CASE Swap
    BY <1>1, <2>1, GrowSwap DEF Swap
  <2>2. CASE UNCHANGED syncVars
    BY <1>1, <2>2, GrowSame DEF syncVars
  <2>3. QED
    BY <2>1, <2>2
<1>4. CASE Server = {}
  <2>1. TypeOK' /\ StoreInv' /\ TrunkKept' /\ crashes' = 0 /\ [Next]_storeVars
    BY <1>3 DEF StoreGrows, StoreInv
  <2>2. QED
    BY <1>2, <1>4, <2>1 DEF SyncInv, SyncTypeOK, HeldInv, Marks, TrunkKept
<1>5. ASSUME NEW s \in Server PROVE SyncInv' /\ [Next]_storeVars
  <2>1. Shaped' /\ Only(s)
    BY <1>1, <1>2 DEF Shaped, Only
  <2>2. on[s] \in Live' \cup {NoChain}
    BY <1>1, <1>3 DEF IfaceOK, IfaceInv, StoreGrows
  <2>3. IfaceOK(s)
    BY <1>1
  <2>4. IfaceOK(s)'
    BY <1>2, <2>2, <2>3 DEF IfaceOK, IfaceInv
  <2>5. QED
    BY <1>3, <2>1, <2>4, SyncStep
<1>6. QED
  BY <1>4, <1>5

\* The inductive step, and that the store takes a step of its own.
LEMMA SyncNextStep ==
    ASSUME MaxForks <= 1, SyncInv, [SyncNext]_syncVars
    PROVE  SyncInv' /\ [Next]_storeVars
<1>1. HeldInv'
  BY SyncParts, HeldNext
<1>2. 0..MaxHeight \subseteq Nat /\ 0..(MaxHeight + 1) \subseteq Nat
  BY MaxHeightFacts
<1>3. ASSUME NEW s \in Server, new_interface(s) PROVE SyncInv' /\ [Next]_storeVars
  BY <1>1, <1>3, SyncQuiet
<1>4. ASSUME NEW s \in Server, lost(s) \/ behind(s) PROVE SyncInv' /\ [Next]_storeVars
  BY <1>1, <1>4, SyncDown DEF lost, behind
<1>5. ASSUME NEW s \in Server, Answer(s) PROVE SyncInv' /\ [Next]_storeVars
  <2>1. ASSUME NEW n \in Nat, on_header(s, n) PROVE SyncInv' /\ [Next]_storeVars
    BY <1>1, <2>1, SyncBackward, SyncBinary, SyncCatchesUp DEF on_header
  <2>2. ASSUME NEW n \in Nat, unproven(s, n) \/ beyond_tip(s, n) PROVE SyncInv' /\ [Next]_storeVars
    BY <1>1, <2>2, SyncDown DEF unproven, beyond_tip
  <2>3. ASSUME NEW n \in Nat, ignored(s, n) PROVE SyncInv' /\ [Next]_storeVars
    BY <1>1, <2>3, SyncQuiet
  <2>4. ASSUME NEW n \in Nat, on_block_headers(s, n) PROVE SyncInv' /\ [Next]_storeVars
    BY <1>1, <2>4, SyncChunk
  <2>5. CASE on_proof(s)
    BY <1>1, <2>5, SyncProof
  <2>6. QED
    BY <1>2, <1>5, <2>1, <2>2, <2>3, <2>4, <2>5 DEF Answer
<1>6. ASSUME NEW s \in Server, NEW h \in Header, on_notify_header(s, h) PROVE SyncInv' /\ [Next]_storeVars
  BY <1>1, <1>6, SyncNotified
<1>7. CASE Swap \/ UNCHANGED syncVars
  BY <1>1, <1>7, SyncStore
<1>8. QED
  BY <1>3, <1>4, <1>5, <1>6, <1>7 DEF SyncNext

\* The first state.
LEMMA SyncFirst == SyncInit => SyncInv
<1> SUFFICES ASSUME SyncInit PROVE SyncInv
  OBVIOUS
<1> DEFINE c0 == CHOOSE c \in Chain : TRUE
<1>1. c0 \in Chain
  BY ServerAssumption
<1>2. /\ file = [b \in {ROOT} |-> Trunk] /\ parent = [b \in {ROOT} |-> ROOT]
      /\ blockchains = [b \in {ROOT} |-> c0] /\ swapping = NoSwap /\ crashes = 0
  BY DEF SyncInit
<1>3. Base = {ROOT} /\ file[ROOT] = Trunk
  BY <1>2 DEF Base
<1>4. Trunk \in Seq(Header \cup {NULL_HEADER}) /\ Len(Trunk) > VERIFICATION_BLOCK_HEIGHT
  <2>1. Trunk \in Seq(Header) /\ Len(Trunk) = VERIFICATION_BLOCK_HEIGHT + 1 /\ VERIFICATION_BLOCK_HEIGHT \in Nat
    BY HeaderAssumption
  <2>2. QED
    BY <2>1
<1> HIDE DEF c0
<1>5. TypeOK
  BY <1>1, <1>2, <1>3, <1>4, HeaderAssumption DEF TypeOK, ROOT
<1>6. RootIsLongest /\ ExchangeInv
  <2>1. top(file, ROOT) <= top(file, ROOT)
    BY <1>3, <1>4, HeaderAssumption DEF top, ROOT
  <2>2. QED
    BY <1>2, <1>3, <2>1 DEF RootIsLongest, ExchangeInv
<1>7. StoreInv
  BY <1>3, <1>4, <1>5, <1>6 DEF StoreInv
<1>8. \A i \in 1..Len(Trunk) : file[ROOT][i] = Trunk[i]
  BY <1>3
<1>9. /\ served \in [Server -> Header] /\ catch_up = [c \in Chain |-> Nobody]
      /\ mode = [s \in Server |-> "down"] /\ tip = [s \in Server |-> NoHeader]
      /\ on = [s \in Server |-> NoChain] /\ good = [s \in Server |-> 0]
      /\ bad = [s \in Server |-> NoHeader] /\ request = [s \in Server |-> {}]
      /\ verified = [s \in Server |-> "no"]
  BY ServerAssumption DEF SyncInit
<1>10. SyncTypeOK
  BY <1>5, <1>9, MaxHeightFacts DEF SyncTypeOK, Searching
<1>11. ASSUME NEW s \in Server PROVE IfaceInv(s)
  BY <1>9 DEF IfaceInv
<1>12. CatchUpHeld /\ catch_up \in [Chain -> {Nobody} \cup ({"server", "interface"} \X Server)]
  BY <1>9, ServerAssumption DEF CatchUpHeld
<1>13. QED
  BY <1>2, <1>7, <1>8, <1>10, <1>11, <1>12 DEF SyncInv

\* SyncInv holds in every state, with at most one fork file.
THEOREM SyncAlways ==
    ASSUME MaxForks <= 1
    PROVE  SyncSpec => []SyncInv
<1>1. SyncInv /\ [SyncNext]_syncVars => SyncInv'
  BY SyncNextStep
<1>2. QED
  BY <1>1, SyncFirst, PTL DEF SyncSpec

\* Every handler finds the state its mode promises: a search has an upper
\* bound, a chain that is caught up is there, and no request names a height
\* that no header has, whatever several servers answer and in whatever order.
THEOREM SyncTyped ==
    ASSUME MaxForks <= 1
    PROVE  SyncSpec => []SyncTypeOK
<1>1. SyncInv => SyncTypeOK
  BY DEF SyncInv
<1>2. QED
  BY <1>1, SyncAlways, PTL

\* The network thread changes the store only by steps of Blockchain: whatever
\* the servers answer, a header, a chunk, a new fork and a fork file that is
\* started again are saved under the conditions the store's own specification
\* states (on_header, on_block_headers, _process_latest_tip).
THEOREM StoreOnlySteps ==
    ASSUME MaxForks <= 1
    PROVE  SyncSpec => StoreSteps
<1>1. SyncInv /\ [SyncNext]_syncVars => [Next]_storeVars
  BY SyncNextStep
<1>2. QED
  BY <1>1, SyncAlways, PTL DEF SyncSpec, StoreSteps

-----------------------------------------------------------------------------
(* The store implements HeaderChains: the chains as sequences of headers   *)
(* that follow one another.                                                *)

\* A chunk is a piece of a chain: each header names the one before it.
ChunksLinked ==
    \A d \in Chunks : \A i \in 2..Len(d) : d[i] # Genesis /\ Prev[d[i]] = d[i - 1]

last(s) == link(s, Len(s))

\* A sequence that holds a path from the checkpoint on.
Path == {s \in Seq(Stored) : Len(s) > VERIFICATION_BLOCK_HEIGHT /\ IsPath(s)}

\* Every position of a path from the checkpoint on is a header of its height.
LEMMA PathFacts ==
    ASSUME NEW s \in Path, NEW n \in (VERIFICATION_BLOCK_HEIGHT + 1)..Len(s)
    PROVE  /\ link(s, n) \in Header /\ Height[link(s, n)] = n - 1
           /\ n > VERIFICATION_BLOCK_HEIGHT + 1 => Prev[link(s, n)] = link(s, n - 1) /\ link(s, n) = s[n]
<1>1. VERIFICATION_BLOCK_HEIGHT \in Nat /\ Len(s) \in Nat /\ Checkpoint \in Header
      /\ Height[Checkpoint] = VERIFICATION_BLOCK_HEIGHT
  BY HeaderAssumption, LenProperties DEF Path, VERIFICATION_BLOCK_HEIGHT
<1>2. CASE n = VERIFICATION_BLOCK_HEIGHT + 1
  BY <1>1, <1>2 DEF link
<1>3. CASE n # VERIFICATION_BLOCK_HEIGHT + 1
  <2>1. n \in (VERIFICATION_BLOCK_HEIGHT + 2)..Len(s)
    BY <1>1, <1>3
  <2>2. QED
    BY <1>1, <1>3, <2>1 DEF link, Path, IsPath
<1>4. QED
  BY <1>2, <1>3

\* A header of a path lies below its last one.
LEMMA PathBelow ==
    ASSUME NEW s \in Path, NEW n \in (VERIFICATION_BLOCK_HEIGHT + 1)..Len(s)
    PROVE  Chains!Below(link(s, n), last(s))
<1> DEFINE V == VERIFICATION_BLOCK_HEIGHT
           m == Len(s)
           N == m - (V + 1)
           h == last(s)
           g == [k \in 0..N |-> link(s, m - k)]
           f[k \in 0..N] == IF k = 0 THEN h ELSE Prev[f[k - 1]]
<1>1. V \in Nat /\ m \in Nat /\ m > V /\ N \in Nat
  BY HeaderAssumption, LenProperties DEF Path
<1>2. \A k \in (V + 1)..m : link(s, k) \in Header /\ Height[link(s, k)] = k - 1
  BY PathFacts
<1>3. \A k \in (V + 2)..m : Prev[link(s, k)] = link(s, k - 1)
  BY <1>1, PathFacts
<1>4. m \in (V + 1)..m /\ h = link(s, m) /\ Height[h] = m - 1
  BY <1>1, <1>2 DEF last
<1> HIDE DEF V, m, h
<1>5. g = [k \in 0..N |-> IF k = 0 THEN h ELSE Prev[g[k - 1]]]
  <2>1. ASSUME NEW k \in 0..N PROVE g[k] = IF k = 0 THEN h ELSE Prev[g[k - 1]]
    <3>1. CASE k = 0
      BY <1>1, <1>4, <3>1
    <3>2. CASE k # 0
      <4>1. k - 1 \in 0..N /\ m - (k - 1) \in (V + 2)..m /\ (m - (k - 1)) - 1 = m - k
        BY <1>1, <3>2
      <4>2. g[k - 1] = link(s, m - (k - 1)) /\ g[k] = link(s, m - k)
        BY <4>1
      <4>3. Prev[link(s, m - (k - 1))] = link(s, m - k)
        BY <1>3, <4>1
      <4>4. QED
        BY <3>2, <4>2, <4>3
    <3>3. QED
      BY <3>1, <3>2
  <2>2. QED
    BY <2>1
<1> HIDE DEF g
<1>6. f = [k \in 0..N |-> IF k = 0 THEN h ELSE Prev[f[k - 1]]]
  BY <1>5, Zenon DEF f
<1> HIDE DEF f
<1>7. \A k \in 0..N : f[k] = g[k]
  <2> DEFINE Y == {k \in Nat : k <= N => f[k] = g[k]}
  <2>1. 0 \in Y
    BY <1>1, <1>5, <1>6
  <2>2. ASSUME NEW k \in Nat, k \in Y PROVE k + 1 \in Y
    <3> SUFFICES ASSUME k + 1 <= N PROVE f[k + 1] = g[k + 1]
      OBVIOUS
    <3>1. f[k] = g[k] /\ k + 1 \in 0..N /\ k + 1 # 0 /\ (k + 1) - 1 = k
      BY <1>1, <2>2
    <3>2. f[k + 1] = Prev[f[k]]
      BY <1>6, <3>1
    <3>3. g[k + 1] = Prev[g[k]]
      BY <1>5, <3>1
    <3>4. QED
      BY <3>1, <3>2, <3>3
  <2>3. Nat \subseteq Y
    <3> HIDE DEF Y
    <3>1. QED
      BY <2>1, <2>2, SetInduction
  <2>4. QED
    BY <1>1, <2>3
<1>8. Height[h] - Height[Checkpoint] = N
  BY <1>1, <1>4 DEF V, VERIFICATION_BLOCK_HEIGHT
<1>9. Chains!up(h) = f
  BY <1>8 DEF Chains!up, f
<1>10. m - n \in 0..N /\ m - (m - n) = n /\ Height[h] - (n - 1) = m - n /\ n \in (V + 1)..m
  BY <1>1, <1>4 DEF V, m
<1>11. Height[link(s, n)] = n - 1 /\ n - 1 \in Height[Checkpoint]..Height[h]
  BY <1>1, <1>2, <1>4, <1>10 DEF V, VERIFICATION_BLOCK_HEIGHT
<1>12. g[m - n] = link(s, n)
  BY <1>10 DEF g
<1>13. f[m - n] = link(s, n)
  BY <1>7, <1>10, <1>12
<1>14. QED
  BY <1>9, <1>10, <1>11, <1>13 DEF Chains!Below, h

\* A path is the chain that ends with its last header.
LEMMA PathAt ==
    ASSUME NEW s \in Path, NEW n \in (VERIFICATION_BLOCK_HEIGHT + 1)..Len(s)
    PROVE  last(s) \in Header /\ Height[last(s)] = Len(s) - 1 /\ at(last(s), n - 1) = link(s, n)
<1> DEFINE V == VERIFICATION_BLOCK_HEIGHT
           m == Len(s)
           h == last(s)
           Y == {d \in Nat : d <= m - (V + 1) => at(h, (m - 1) - d) = link(s, m - d)}
<1>1. V \in Nat /\ m \in Nat /\ m > V
  BY HeaderAssumption, LenProperties DEF Path
<1>2. m \in (V + 1)..m
  BY <1>1
<1>3. h \in Header /\ Height[h] = m - 1
  BY <1>2, PathFacts DEF last
<1>4. \A k \in (V + 2)..m : Prev[link(s, k)] = link(s, k - 1)
  BY <1>1, PathFacts
<1>5. at(h, m - 1) = h /\ \A i \in 0..(m - 2) : at(h, i) = Prev[at(h, i + 1)]
  <2>1. at(h, Height[h]) = h /\ \A i \in 0..(Height[h] - 1) : at(h, i) = Prev[at(h, i + 1)]
    BY <1>3, AtFacts
  <2>2. Height[h] - 1 = m - 2
    BY <1>1, <1>3
  <2>3. QED
    BY <1>3, <2>1, <2>2
<1>6. h = link(s, m)
  BY DEF last
<1> HIDE DEF h, V, m
<1>7. 0 \in Y
  <2>1. (m - 1) - 0 = m - 1 /\ m - 0 = m
    BY <1>1
  <2>2. QED
    BY <1>5, <1>6, <2>1
<1>8. ASSUME NEW d \in Nat, d \in Y PROVE d + 1 \in Y
  <2> SUFFICES ASSUME d + 1 <= m - (V + 1) PROVE at(h, (m - 1) - (d + 1)) = link(s, m - (d + 1))
    OBVIOUS
  <2>1. at(h, (m - 1) - d) = link(s, m - d)
    BY <1>1, <1>8
  <2>2. (m - 1) - (d + 1) \in 0..(m - 2) /\ ((m - 1) - (d + 1)) + 1 = (m - 1) - d
        /\ m - d \in (V + 2)..m /\ (m - d) - 1 = m - (d + 1)
    BY <1>1
  <2>3. at(h, (m - 1) - (d + 1)) = Prev[link(s, m - d)]
    BY <1>5, <2>1, <2>2
  <2>4. Prev[link(s, m - d)] = link(s, m - (d + 1))
    BY <1>4, <2>2
  <2>5. QED
    BY <2>3, <2>4
<1> HIDE DEF Y
<1>9. n \in Nat /\ m - n \in Nat
  BY <1>1 DEF V, m
<1>10. m - n \in Y
  BY <1>7, <1>8, <1>9, SetInduction
<1>11. m - n <= m - (V + 1) /\ (m - 1) - (m - n) = n - 1 /\ m - (m - n) = n
  BY <1>1, <1>9 DEF V, m
<1>12. at(h, n - 1) = link(s, n)
  BY <1>10, <1>11 DEF Y
<1>13. QED
  BY <1>3, <1>12 DEF h, m

\* A path is cut at k and goes on with headers that follow one another.
LEMMA PathSpliced ==
    ASSUME NEW s \in Path, NEW t \in Seq(Stored), NEW d \in Seq(Header),
           NEW k \in (VERIFICATION_BLOCK_HEIGHT + 1)..Len(s), Len(t) = k + Len(d),
           \A i \in 1..k : t[i] = s[i], \A i \in 1..Len(d) : t[k + i] = d[i],
           d # <<>> => Height[d[1]] = k /\ Prev[d[1]] = link(s, k),
           \A i \in 2..Len(d) : d[i] # Genesis /\ Prev[d[i]] = d[i - 1]
    PROVE  t \in Path
<1> DEFINE V == VERIFICATION_BLOCK_HEIGHT
<1>1. /\ V \in Nat /\ Len(s) \in Nat /\ Len(d) \in Nat /\ Len(s) > V /\ k \in Nat /\ k > V /\ k <= Len(s)
      /\ \A i \in 1..Len(d) : d[i] \in Header
  BY HeaderAssumption, LenProperties, ElementOfSeq DEF Path
<1>2. \A i \in 1..Len(d) : Height[d[i]] = k + i - 1
  <2> DEFINE Y == {j \in Nat : j + 1 <= Len(d) => Height[d[j + 1]] = k + j}
  <2>1. 0 \in Y
    <3> SUFFICES ASSUME 0 + 1 <= Len(d) PROVE Height[d[0 + 1]] = k + 0
      OBVIOUS
    <3>1. d # <<>>
      BY <1>1, EmptySeq
    <3>2. QED
      BY <1>1, <3>1
  <2>2. ASSUME NEW j \in Nat, j \in Y PROVE j + 1 \in Y
    <3> SUFFICES ASSUME (j + 1) + 1 <= Len(d) PROVE Height[d[(j + 1) + 1]] = k + (j + 1)
      OBVIOUS
    <3>1. Height[d[j + 1]] = k + j
      BY <1>1, <2>2
    <3>2. (j + 1) + 1 \in 2..Len(d) /\ ((j + 1) + 1) - 1 = j + 1 /\ (j + 1) + 1 \in 1..Len(d)
      BY <1>1
    <3>3. d[(j + 1) + 1] \in Header \ {Genesis} /\ Prev[d[(j + 1) + 1]] = d[j + 1]
      BY <1>1, <3>2
    <3>4. Height[d[(j + 1) + 1]] = Height[d[j + 1]] + 1
      <4>1. \A h \in Header \ {Genesis} : Height[h] = Height[Prev[h]] + 1
        BY HeaderAssumption
      <4>2. QED
        BY <3>3, <4>1, Zenon
    <3>5. QED
      BY <1>1, <3>1, <3>4
  <2>3. Nat \subseteq Y
    <3> HIDE DEF Y
    <3>1. QED
      BY <2>1, <2>2, SetInduction
  <2> SUFFICES ASSUME NEW i \in 1..Len(d) PROVE Height[d[i]] = k + i - 1
    OBVIOUS
  <2>4. i - 1 \in Nat /\ (i - 1) + 1 = i /\ (i - 1) + 1 <= Len(d)
    BY <1>1
  <2>5. i - 1 \in Y
    BY <2>3, <2>4
  <2>6. Height[d[i]] = k + (i - 1)
    BY <2>4, <2>5
  <2>7. QED
    BY <1>1, <2>6
<1>3. ASSUME NEW i \in (V + 2)..Len(t)
      PROVE  t[i] \in Header /\ Height[t[i]] = i - 1 /\ Prev[t[i]] = link(t, i - 1)
  <2>1. CASE i <= k
    <3>1. i \in (V + 2)..Len(s) /\ i \in 1..k /\ i - 1 \in 1..k
      BY <1>1, <2>1
    <3>2. link(t, i - 1) = link(s, i - 1)
      BY <3>1 DEF link
    <3>3. QED
      BY <3>1, <3>2 DEF Path, IsPath
  <2>2. CASE i = k + 1
    <3>1. 1 \in 1..Len(d) /\ d # <<>> /\ i - 1 = k /\ k \in 1..k
      BY <1>1, <2>2
    <3>2. t[i] = d[1] /\ d[1] \in Header /\ Height[d[1]] = k /\ Prev[d[1]] = link(s, k)
      BY <1>1, <2>2, <3>1
    <3>3. link(t, i - 1) = link(s, k)
      BY <3>1 DEF link
    <3>4. QED
      BY <3>1, <3>2, <3>3
  <2>3. CASE i > k + 1
    <3> HIDE DEF V
    <3>1. i \in Nat /\ i <= k + Len(d) /\ i - 1 # V + 1
      BY <1>1, <2>3
    <3>2. i - k \in 2..Len(d) /\ k + (i - k) = i /\ i - k \in 1..Len(d) /\ (i - k) - 1 \in 1..Len(d)
          /\ k + ((i - k) - 1) = i - 1 /\ k + (i - k) - 1 = i - 1
      BY <1>1, <2>3, <3>1
    <3>3. t[i] = d[i - k] /\ t[i - 1] = d[(i - k) - 1]
      BY <3>2
    <3>4. link(t, i - 1) = t[i - 1]
      BY <3>1 DEF link, V
    <3>5. QED
      BY <1>1, <1>2, <3>2, <3>3, <3>4
  <2>4. QED
    BY <1>1, <2>1, <2>2, <2>3
<1>4. \A i \in 1..(V + 1) : t[i] \in {NULL_HEADER, Trunk[i]}
  <2>1. \A i \in 1..(V + 1) : i \in 1..k
    BY <1>1
  <2>2. QED
    BY <2>1 DEF Path, IsPath
<1>5. Len(t) > V
  BY <1>1
<1>6. QED
  BY <1>3, <1>4, <1>5 DEF Path, IsPath

\* A path that is cut short.
LEMMA PathCut ==
    ASSUME NEW s \in Path, NEW t \in Seq(Stored), Len(t) \in (VERIFICATION_BLOCK_HEIGHT + 1)..Len(s),
           \A i \in 1..Len(t) : t[i] = s[i]
    PROVE  t \in Path /\ last(t) = link(s, Len(t)) /\ Chains!Below(last(t), last(s))
<1> DEFINE d == << >>
           k == Len(t)
<1>1. /\ d \in Seq(Header) /\ Len(d) = 0 /\ d = <<>> /\ k \in Nat
      /\ k \in (VERIFICATION_BLOCK_HEIGHT + 1)..Len(s)
  BY LenProperties
<1> HIDE DEF d
<1>2. t \in Path
  <2>1. Len(t) = k + Len(d)
    BY <1>1
  <2>2. \A i \in 1..Len(d) : t[k + i] = d[i]
    BY <1>1
  <2>3. \A i \in 2..Len(d) : d[i] # Genesis /\ Prev[d[i]] = d[i - 1]
    BY <1>1
  <2> HIDE DEF k
  <2>4. \A i \in 1..k : t[i] = s[i]
    BY DEF k
  <2>5. d # <<>> => Height[d[1]] = k /\ Prev[d[1]] = link(s, k)
    BY <1>1
  <2>6. d \in Seq(Header) /\ k \in (VERIFICATION_BLOCK_HEIGHT + 1)..Len(s)
    BY <1>1
  <2>7. QED
    BY <2>1, <2>2, <2>3, <2>4, <2>5, <2>6, PathSpliced, Zenon
<1>3. last(t) = link(s, Len(t))
  <2>1. Len(t) \in 1..Len(t)
    BY HeaderAssumption
  <2>2. QED
    BY <2>1 DEF last, link
<1>4. QED
  BY <1>2, <1>3, PathBelow

\* A chain s, position by position: the root's up to the base, then the fork's.
Joins(s, f, b) ==
    /\ s \in Seq(Stored) /\ Len(s) = b + Len(f[b]) /\ Len(s) \in Nat /\ Len(f[b]) \in Nat
    /\ b # ROOT => \A i \in 1..b : s[i] = f[ROOT][i]
    /\ \A i \in 1..Len(f[b]) : s[b + i] = f[b][i]

\* What chain_of makes of the contents of the files.
LEMMA ChainAt ==
    ASSUME NEW B, ROOT \in B, NEW f \in [B -> Seq(Stored)], NEW b \in B, b \in Nat,
           b # ROOT => Len(f[ROOT]) >= b
    PROVE  Joins(chain_of(f, b), f, b)
<1>1. f[b] \in Seq(Stored) /\ f[ROOT] \in Seq(Stored) /\ Len(f[b]) \in Nat /\ Len(f[ROOT]) \in Nat
  BY LenProperties
<1>2. CASE b = ROOT
  BY <1>1, <1>2 DEF chain_of, ROOT, Joins
<1>3. CASE b # ROOT
  <2>1. chain_of(f, b) = SubSeq(f[ROOT], 1, b) \o f[b] /\ b \in 0..Len(f[ROOT])
    BY <1>1, <1>3 DEF chain_of
  <2> DEFINE r == f[ROOT]
             d == f[b]
  <2> HIDE DEF r, d
  <2>2. r \in Seq(Stored) /\ d \in Seq(Stored) /\ b \in 0..Len(r) /\ Len(d) \in Nat
    BY <1>1, <2>1 DEF r, d
  <2>3. /\ SubSeq(r, 1, b) \o d \in Seq(Stored) /\ Len(SubSeq(r, 1, b) \o d) = b + Len(d)
        /\ \A i \in 1..b : (SubSeq(r, 1, b) \o d)[i] = r[i]
        /\ \A i \in 1..Len(d) : (SubSeq(r, 1, b) \o d)[b + i] = d[i]
    <3>1. SubSeq(r, 1, b) \o d \in Seq(Stored) /\ Len(SubSeq(r, 1, b) \o d) = b + Len(d)
      BY <2>2, WrittenFacts
    <3>2. \A i \in 1..b : (SubSeq(r, 1, b) \o d)[i] = r[i]
      BY <2>2, WrittenFacts
    <3>3. \A i \in 1..Len(d) : (SubSeq(r, 1, b) \o d)[b + i] = d[i]
      <4>1. SubSeq(r, 1, b) \in Seq(Stored) /\ Len(SubSeq(r, 1, b)) = b
        BY <2>2, WrittenFacts
      <4> DEFINE p == SubSeq(r, 1, b)
      <4> HIDE DEF p
      <4>2. p \in Seq(Stored) /\ Len(p) = b
        BY <4>1 DEF p
      <4>3. \A i \in 1..Len(d) : (p \o d)[b + i] = d[i]
        BY <2>2, <4>2, ConcatProperties
      <4>4. QED
        BY <4>3 DEF p
    <3>4. QED
      BY <3>1, <3>2, <3>3
  <2>4. Len(SubSeq(r, 1, b) \o d) \in Nat
    BY <2>2, <2>3
  <2>5. chain_of(f, b) = SubSeq(r, 1, b) \o d /\ d = f[b] /\ r = f[ROOT]
    BY <2>1 DEF r, d
  <2>6. QED
    BY <2>2, <2>3, <2>4, <2>5, Zenon DEF Joins
<1>4. QED
  BY <1>2, <1>3

\* A file is its first n headers and the rest.
LEMMA Rejoined ==
    ASSUME NEW S, NEW s \in Seq(S), NEW n \in 0..Len(s)
    PROVE  SubSeq(s, 1, n) \o SubSeq(s, n + 1, Len(s)) = s
<1> DEFINE d == SubSeq(s, n + 1, Len(s))
           w == SubSeq(s, 1, n) \o d
<1>1. /\ d \in Seq(S) /\ Len(d) = Len(s) - n /\ Len(s) \in Nat
      /\ \A i \in 1..(Len(s) - n) : d[i] = s[n + i]
  BY TailFacts, LenProperties
<1> HIDE DEF d
<1>2. /\ w \in Seq(S) /\ Len(w) = n + Len(d) /\ \A i \in 1..n : w[i] = s[i]
      /\ \A i \in 1..Len(d) : w[n + i] = d[i]
  <2>1. d \in Seq(S)
    BY <1>1
  <2>2. w \in Seq(S) /\ Len(w) = n + Len(d)
    BY <2>1, WrittenFacts
  <2>3. \A i \in 1..n : w[i] = s[i]
    BY <2>1, WrittenFacts
  <2>4. \A i \in 1..Len(d) : w[n + i] = d[i]
    BY <2>1, WrittenFacts
  <2>5. QED
    BY <2>2, <2>3, <2>4
<1> HIDE DEF w
<1>3. \A i \in 1..Len(s) : w[i] = s[i]
  <2> SUFFICES ASSUME NEW i \in 1..Len(s), i \notin 1..n PROVE w[i] = s[i]
    BY <1>2
  <2>1. i - n \in 1..Len(d) /\ i - n \in 1..(Len(s) - n) /\ n + (i - n) = i
    BY <1>1
  <2>2. w[n + (i - n)] = d[i - n] /\ d[i - n] = s[n + (i - n)]
    BY <1>1, <1>2, <2>1
  <2>3. QED
    BY <2>1, <2>2
<1>4. Len(w) = Len(s)
  BY <1>1, <1>2
<1>5. w = s
  BY <1>2, <1>3, <1>4, SeqEqual
<1>6. QED
  BY <1>5 DEF w, d

\* The contents the objects stand for are complete too: those of the files,
\* until an exchange has begun to write.
MeantIs ==
    /\ meant \in [Base -> Seq(Stored)] /\ Len(meant[ROOT]) > VERIFICATION_BLOCK_HEIGHT
    /\ \A b \in Base \ {ROOT} : Len(meant[ROOT]) >= b
    /\ swapping = NoSwap \/ swapping.step = "read" => meant = file
    /\ swapping # NoSwap =>
          /\ meant[swapping.base] = swapping.my_data
          /\ meant[ROOT] = SubSeq(file[ROOT], 1, swapping.base) \o swapping.parent_data

\* MeantIs follows from StoreInv.
LEMMA MeantNow == StoreInv => MeantIs
<1> SUFFICES ASSUME StoreInv PROVE MeantIs
  OBVIOUS
<1>1. file \in [Base -> Seq(Stored)] /\ ROOT \in Base /\ ROOT = 0 /\ VERIFICATION_BLOCK_HEIGHT \in Nat
  BY StoreTypes DEF StoreInv, TypeOK, Stored
<1>2. CASE swapping = NoSwap
  BY <1>1, <1>2 DEF meant, StoreInv, MeantIs
<1>3. CASE swapping # NoSwap
  <2> DEFINE b == swapping.base
             w == SubSeq(file[ROOT], 1, b) \o swapping.parent_data
  <2>1. /\ b \in Base \ {ROOT} /\ Base = {ROOT, b} /\ parent[b] = ROOT /\ b \in Nat
        /\ b > VERIFICATION_BLOCK_HEIGHT /\ b \in 0..Len(file[ROOT]) /\ b - ROOT = b
        /\ swapping.my_data \in Seq(Stored) /\ swapping.parent_data \in Seq(Stored)
        /\ Len(swapping.parent_data) \in Nat
    BY <1>1, <1>3, ExchangeFacts
  <2>2. meant = [file EXCEPT ![b] = swapping.my_data, ![ROOT] = w]
    <3>1. meant = [file EXCEPT ![b] = swapping.my_data,
                               ![ROOT] = SubSeq(@, 1, b) \o swapping.parent_data]
      BY <1>3, <2>1 DEF meant
    <3>2. QED
      BY <1>1, <2>1, <3>1
  <2>3. w \in Seq(Stored) /\ Len(w) = b + Len(swapping.parent_data)
    BY <1>1, <2>1, WrittenFacts
  <2> HIDE DEF w
  <2>4. meant \in [Base -> Seq(Stored)] /\ meant[ROOT] = w /\ meant[b] = swapping.my_data
    BY <1>1, <2>1, <2>2, <2>3
  <2>5. Len(meant[ROOT]) > VERIFICATION_BLOCK_HEIGHT /\ Len(meant[ROOT]) >= b
    BY <1>1, <2>1, <2>3, <2>4
  <2>6. ASSUME swapping.step = "read" PROVE meant = file
    <3>1. file[b] = swapping.my_data
          /\ SubSeq(file[ROOT], b + 1, Len(file[ROOT])) = swapping.parent_data
      BY <1>3, <2>6 DEF StoreInv, ExchangeInv
    <3>2. w = file[ROOT]
      BY <1>1, <2>1, <3>1, Rejoined DEF w
    <3>3. QED
      BY <1>1, <2>1, <2>2, <3>1, <3>2
  <2>7. QED
    BY <1>3, <2>1, <2>4, <2>5, <2>6 DEF w, MeantIs
<1>4. QED
  BY <1>2, <1>3

\* The same after a step.
LEMMA MeantThen == StoreInv' => MeantIs'
  BY MeantNow, PTL

\* A chain of the store as a sequence: its length, and what header_in reads.
LEMMA ChainFacts ==
    ASSUME StoreInv, NEW b \in Base
    PROVE  LET s == chain_of(meant, b)
           IN  /\ s \in Seq(Stored) /\ Len(s) = top(meant, b) + 1 /\ Len(s) \in Nat
               /\ Len(s) > VERIFICATION_BLOCK_HEIGHT
               /\ \A h \in VERIFICATION_BLOCK_HEIGHT..top(meant, b) :
                     header_in(meant, b, h) = IF s[h + 1] # NULL_HEADER THEN s[h + 1] ELSE NoHeader
<1> DEFINE s == chain_of(meant, b)
           V == VERIFICATION_BLOCK_HEIGHT
<1>1. /\ ROOT \in Base /\ ROOT = 0 /\ V \in Nat /\ b \in Nat
      /\ meant \in [Base -> Seq(Stored)] /\ Len(meant[ROOT]) > V
      /\ b # ROOT => Len(meant[ROOT]) >= b /\ b > V
  BY MeantNow, StoreTypes DEF StoreInv, TypeOK, MeantIs
<1>2. /\ s \in Seq(Stored) /\ Len(s) = b + Len(meant[b])
      /\ Len(s) \in Nat /\ Len(meant[b]) \in Nat /\ Len(meant[ROOT]) \in Nat
      /\ b # ROOT => \A i \in 1..b : s[i] = meant[ROOT][i]
      /\ \A i \in 1..Len(meant[b]) : s[b + i] = meant[b][i]
  <2>1. Joins(s, meant, b)
    BY <1>1, ChainAt
  <2>2. Len(meant[ROOT]) \in Nat
    BY <1>1, LenProperties
  <2>3. QED
    BY <2>1, <2>2, Zenon DEF Joins
<1> HIDE DEF s, V
<1>3. Len(s) = top(meant, b) + 1 /\ Len(s) > V /\ top(meant, b) \in Nat
  BY <1>1, <1>2 DEF top
<1>4. ASSUME NEW h \in V..top(meant, b)
      PROVE  header_in(meant, b, h) = IF s[h + 1] # NULL_HEADER THEN s[h + 1] ELSE NoHeader
  <2>1. h \in Nat /\ h <= top(meant, b)
    BY <1>1, <1>3
  <2>2. CASE h >= b
    <3>1. owner(b, h) = b
      BY <2>1, <2>2, OwnerFacts
    <3>2. h - b + 1 \in 1..Len(meant[b]) /\ b + (h - b + 1) = h + 1 /\ h \in b..top(meant, b)
      BY <1>1, <1>2, <2>1, <2>2 DEF top
    <3>3. meant[b][h - b + 1] = s[h + 1]
      <4>1. s[b + (h - b + 1)] = meant[b][h - b + 1]
        BY <1>2, <3>2
      <4>2. QED
        BY <3>2, <4>1
    <3>4. QED
      BY <3>1, <3>2, <3>3 DEF header_in
  <2>3. CASE h < b
    <3>1. owner(b, h) = ROOT /\ b # ROOT
      BY <1>1, <2>1, <2>3, OwnerFacts
    <3>2. h + 1 \in 1..b /\ h - ROOT + 1 = h + 1 /\ h \in ROOT..top(meant, ROOT)
      BY <1>1, <1>2, <2>1, <2>3 DEF top
    <3>3. meant[ROOT][h + 1] = s[h + 1]
      BY <1>2, <3>1, <3>2
    <3>4. QED
      BY <3>1, <3>2, <3>3 DEF header_in
  <2>4. QED
    BY <1>1, <2>1, <2>2, <2>3
<1>5. QED
  BY <1>2, <1>3, <1>4 DEF s, V

\* The last header of a chain.
LEMMA TipFacts ==
    ASSUME StoreInv, PathInv, NEW b \in Base
    PROVE  chain_of(meant, b) \in Path /\ tip_of(b) = last(chain_of(meant, b))
<1> DEFINE s == chain_of(meant, b)
           V == VERIFICATION_BLOCK_HEIGHT
<1>1. /\ s \in Seq(Stored) /\ Len(s) = top(meant, b) + 1 /\ Len(s) \in Nat /\ Len(s) > V /\ V \in Nat
      /\ \A h \in V..top(meant, b) :
            header_in(meant, b, h) = IF s[h + 1] # NULL_HEADER THEN s[h + 1] ELSE NoHeader
  BY ChainFacts, HeaderAssumption
<1>2. s \in Path
  BY <1>1 DEF Path, PathInv
<1> HIDE DEF s, V
<1>3. top(meant, b) \in Nat /\ top(meant, b) = Len(s) - 1
  <2>1. b \in Nat /\ Len(meant[b]) \in Nat
    BY MeantNow, LenProperties DEF StoreInv, TypeOK, MeantIs
  <2>2. QED
    BY <1>1, <2>1 DEF top
<1>4. \A h \in (V + 1)..top(meant, b) :
         /\ header_in(meant, b, h) = s[h + 1] /\ s[h + 1] \in Header
         /\ s[h + 1] = link(s, h + 1) /\ Prev[s[h + 1]] = link(s, h)
  <2> SUFFICES ASSUME NEW h \in (V + 1)..top(meant, b)
               PROVE  /\ header_in(meant, b, h) = s[h + 1] /\ s[h + 1] \in Header
                      /\ s[h + 1] = link(s, h + 1) /\ Prev[s[h + 1]] = link(s, h)
    OBVIOUS
  <2>1. h \in V..top(meant, b) /\ h + 1 \in (V + 1)..Len(s) /\ h + 1 > V + 1 /\ (h + 1) - 1 = h
    BY <1>1, <1>3
  <2>2. link(s, h + 1) \in Header /\ Prev[link(s, h + 1)] = link(s, h) /\ link(s, h + 1) = s[h + 1]
    BY <1>2, <2>1, PathFacts DEF V
  <2>3. s[h + 1] # NULL_HEADER
    BY <2>2, HeaderAssumption
  <2>4. QED
    BY <1>1, <2>1, <2>2, <2>3
<1>5. Linked(b)
  <2> SUFFICES ASSUME NEW h \in (V + 1)..top(meant, b)
               PROVE  /\ header_in(meant, b, h) \in Header
                      /\ h = V + 1 => Prev[header_in(meant, b, h)] = Checkpoint
                      /\ h # V + 1 => Prev[header_in(meant, b, h)] = header_in(meant, b, h - 1)
    BY DEF Linked, V
  <2>1. header_in(meant, b, h) = s[h + 1] /\ s[h + 1] \in Header /\ Prev[s[h + 1]] = link(s, h)
    BY <1>4
  <2>2. CASE h = V + 1
    BY <2>1, <2>2 DEF link, V
  <2>3. CASE h # V + 1
    <3>1. h - 1 \in (V + 1)..top(meant, b) /\ (h - 1) + 1 = h
      BY <1>1, <1>3, <2>3
    <3>2. header_in(meant, b, h - 1) = link(s, h)
      BY <1>4, <3>1
    <3>3. QED
      BY <2>1, <2>3, <3>2
  <2>4. QED
    BY <2>2, <2>3
<1>6. tip_of(b) = last(s)
  <2>1. CASE top(meant, b) = V
    <3>1. Len(s) = V + 1
      BY <1>1, <1>3, <2>1
    <3>2. QED
      BY <1>5, <2>1, <3>1 DEF tip_of, last, link, V
  <2>2. CASE top(meant, b) # V
    <3>1. top(meant, b) \in (V + 1)..top(meant, b) /\ top(meant, b) + 1 = Len(s)
      BY <1>1, <1>3, <2>2
    <3>2. header_in(meant, b, top(meant, b)) = last(s)
      BY <1>4, <3>1 DEF last
    <3>3. QED
      BY <1>5, <2>2, <3>2 DEF tip_of, V
  <2>3. QED
    BY <2>1, <2>2
<1>7. QED
  BY <1>2, <1>6 DEF s

\* The state of HeaderChains: one path for each object.
TipsAre ==
    /\ tips \in [Chain -> Header \cup {NoHeader}] /\ Chains!Known = Live
    /\ Live \subseteq Chain /\ blockchains[ROOT] \in Live /\ ROOT \in Base
    /\ \A b \in Base : /\ chain_of(meant, b) \in Path /\ blockchains[b] \in Live
                       /\ tips[blockchains[b]] = last(chain_of(meant, b))
                       /\ last(chain_of(meant, b)) \in Header
    /\ \A o \in Chain \ Live : tips[o] = NoHeader
    /\ \A o \in Live : \E b \in Base : o = blockchains[b]

\* TipsAre follows from the two invariants.
LEMMA TipsNow == StoreInv /\ PathInv => TipsAre
<1> SUFFICES ASSUME StoreInv, PathInv PROVE TipsAre
  OBVIOUS
<1>1. TypeOK /\ ROOT \in Base
  BY StoreTypes DEF StoreInv
<1>2. Live \subseteq Chain
  BY <1>1 DEF TypeOK, Live
<1>3. ASSUME NEW b \in Base
      PROVE  /\ chain_of(meant, b) \in Path /\ blockchains[b] \in Live
             /\ tips[blockchains[b]] = last(chain_of(meant, b))
             /\ last(chain_of(meant, b)) \in Header
  <2>1. chain_of(meant, b) \in Path /\ tip_of(b) = last(chain_of(meant, b))
    BY TipFacts
  <2>2. blockchains[b] \in Live /\ base_height(blockchains[b]) = b
    BY <1>1, BaseOf
  <2>3. Len(chain_of(meant, b)) \in (VERIFICATION_BLOCK_HEIGHT + 1)..Len(chain_of(meant, b))
    BY ChainFacts, HeaderAssumption
  <2>4. last(chain_of(meant, b)) \in Header
    BY <2>1, <2>3, PathFacts DEF last
  <2>5. QED
    BY <1>2, <2>1, <2>2, <2>4 DEF tips
<1>4. \A o \in Live : \E b \in Base : o = blockchains[b]
  BY DEF Live
<1>5. \A o \in Chain \ Live : tips[o] = NoHeader
  BY DEF tips
<1>6. \A o \in Live : tips[o] \in Header
  BY <1>3, <1>4
<1>7. tips \in [Chain -> Header \cup {NoHeader}]
  BY <1>2, <1>5, <1>6 DEF tips
<1>8. Chains!Known = Live
  BY <1>2, <1>5, <1>6, HeaderAssumption DEF Chains!Known
<1>9. QED
  BY <1>1, <1>2, <1>3, <1>4, <1>5, <1>7, <1>8 DEF TipsAre

\* The same after a step.
LEMMA TipsThen == StoreInv' /\ PathInv' => TipsAre'
  BY TipsNow, PTL

\* A chain that lacks at most the end of another.
Cut(s, t) ==
    /\ s \in Seq(Stored) /\ Len(s) \in (VERIFICATION_BLOCK_HEIGHT + 1)..Len(t)
    /\ \A i \in 1..Len(s) : s[i] = t[i]

Tracks == [Chains!Next]_<<tips, blockchains[ROOT]>>

\* No chain that was there loses a header.
Grown == \A o \in Live : Height[tips[o]] <= Height[tips'[o]] /\ at(tips'[o], Height[tips[o]]) = tips[o]

\* Chains that stay as they are.
LEMMA GrownSame ==
    ASSUME TipsAre, tips' = tips
    PROVE  Grown
<1>1. \A o \in Live : tips[o] \in Header
  BY DEF TipsAre
<1>2. QED
  BY <1>1, HeightFacts, AtFacts DEF Grown

\* The chains are paths if each of them is.
LEMMA PathsMake ==
    ASSUME StoreInv', \A c \in Base' : chain_of(meant', c) \in Path
    PROVE  PathInv' /\ TipsAre'
<1>1. PathInv'
  BY DEF PathInv, Path
<1>2. QED
  BY <1>1, TipsThen

\* What the tips are after a step that changes the chain of one object.
LEMMA TipsChange ==
    ASSUME TipsAre, TipsAre', NEW o \in Chain, NEW b \in Base', o = blockchains'[b],
           Live' \ {o} \subseteq Live, Live \subseteq Live',
           \A c \in Base' \ {b} : /\ c \in Base /\ blockchains'[c] = blockchains[c]
                                  /\ last(chain_of(meant', c)) = last(chain_of(meant, c))
    PROVE  tips' = [tips EXCEPT ![o] = last(chain_of(meant', b))]
<1>1. tips'[o] = last(chain_of(meant', b))
  BY DEF TipsAre
<1>2. ASSUME NEW d \in Chain \ {o} PROVE tips'[d] = tips[d]
  <2>1. CASE d \in Live'
    <3>1. PICK c \in Base' : d = blockchains'[c]
      BY <2>1 DEF TipsAre
    <3>2. c # b
      BY <3>1
    <3>3. tips'[d] = last(chain_of(meant', c)) /\ tips[d] = last(chain_of(meant, c))
      BY <3>1, <3>2 DEF TipsAre
    <3>4. QED
      BY <3>2, <3>3
  <2>2. CASE d \notin Live'
    BY <2>2 DEF TipsAre
  <2>3. QED
    BY <2>1, <2>2
<1>3. tips \in [Chain -> Header \cup {NoHeader}] /\ tips' \in [Chain -> Header \cup {NoHeader}]
  BY DEF TipsAre
<1> DEFINE h == last(chain_of(meant', b))
<1> HIDE DEF h
<1>4. tips'[o] = h
  BY <1>1 DEF h
<1>5. tips' = [tips EXCEPT ![o] = h]
  BY <1>2, <1>3, <1>4
<1>6. QED
  BY <1>5 DEF h

\* What read_header finds at the checkpoint or above it is on the path.
LEMMA ReadLink ==
    ASSUME StoreInv, PathInv, swapping = NoSwap, NEW b \in Base,
           NEW h \in VERIFICATION_BLOCK_HEIGHT..top(file, b), NEW g \in Header,
           read_header(blockchains[b], h) = g
    PROVE  link(chain_of(meant, b), h + 1) = g
<1> DEFINE s == chain_of(meant, b)
           V == VERIFICATION_BLOCK_HEIGHT
<1>1. meant = file /\ base_height(blockchains[b]) = b
  BY MeantNow, BaseOf DEF MeantIs, StoreInv
<1>2. header_in(meant, b, h) = IF s[h + 1] # NULL_HEADER THEN s[h + 1] ELSE NoHeader
  BY <1>1, ChainFacts
<1>3. header_in(meant, b, h) = g
  BY <1>1 DEF read_header
<1>4. s[h + 1] = g
  BY <1>2, <1>3, HeaderAssumption
<1>5. CASE h + 1 # V + 1
  BY <1>4, <1>5 DEF link
<1>6. CASE h + 1 = V + 1
  <2>1. V + 1 \in 1..(V + 1) /\ Trunk[V + 1] = Checkpoint
    BY HeaderAssumption
  <2>2. s[V + 1] \in {NULL_HEADER, Trunk[V + 1]}
    BY <2>1 DEF PathInv, IsPath
  <2>3. s[V + 1] = Checkpoint
    BY <1>4, <1>6, <2>1, <2>2, HeaderAssumption
  <2>4. QED
    BY <1>4, <1>6, <2>3 DEF link
<1>7. QED
  BY <1>5, <1>6

\* A write and the chains: that of the file is cut and goes on with the data,
\* the others stay.
LEMMA ChainSave ==
    ASSUME StoreInv, StoreInv', swapping = NoSwap, NEW b \in Base, NEW data \in Seq(Header),
           NEW off \in 0..Len(file[b]), b = ROOT => off = Len(file[b]),
           Save(written(b, data, off), b)
    PROVE  LET s == chain_of(meant, b)
               t == chain_of(meant', b)
           IN  /\ Base' = Base /\ UNCHANGED blockchains /\ Live' = Live
               /\ \A c \in Base \ {b} : chain_of(meant', c) = chain_of(meant, c)
               /\ t \in Seq(Stored) /\ Len(t) = (b + off) + Len(data)
               /\ b + off \in (VERIFICATION_BLOCK_HEIGHT + 1)..Len(s)
               /\ \A i \in 1..(b + off) : t[i] = s[i]
               /\ \A i \in 1..Len(data) : t[(b + off) + i] = data[i]
<1> DEFINE V == VERIFICATION_BLOCK_HEIGHT
           w == SubSeq(file[b], 1, off) \o data
           s == chain_of(meant, b)
           t == chain_of(meant', b)
<1>1. /\ file \in [Base -> Seq(Stored)] /\ ROOT \in Base /\ ROOT = 0 /\ V \in Nat /\ b \in Nat
      /\ Len(file[ROOT]) \in Nat /\ Len(file[ROOT]) > V /\ Len(file[b]) \in Nat
      /\ \A c \in Base \ {ROOT} : c \in Nat /\ c > V /\ Len(file[ROOT]) >= c /\ Base = {ROOT, c}
  BY StoreTypes DEF StoreInv, TypeOK, Stored
<1>2. file[b] \in Seq(Stored) /\ data \in Seq(Stored) /\ Len(data) \in Nat
  <2>1. Seq(Header) \subseteq Seq(Stored)
    BY DEF Stored
  <2>2. QED
    BY <1>1, <2>1, LenProperties
<1>3. /\ w \in Seq(Stored) /\ Len(w) = off + Len(data)
      /\ (\A i \in 1..off : w[i] = file[b][i])
      /\ (\A i \in 1..Len(data) : w[off + i] = data[i])
  BY <1>2, WrittenFacts
<1> HIDE DEF w
<1>4. file' = [file EXCEPT ![b] = w] /\ UNCHANGED blockchains
      /\ swapping' = swap_with_parent([file EXCEPT ![b] = w], b)
  BY DEF Save, written, w
<1>5. /\ Base' = Base /\ file' \in [Base -> Seq(Stored)] /\ file'[b] = w
      /\ \A c \in Base \ {b} : file'[c] = file[c]
  BY <1>1, <1>3, <1>4 DEF Base
<1>6. meant = file /\ meant' = file'
  <2>1. swapping' = NoSwap \/ swapping'.step = "read"
    BY <1>4 DEF swap_with_parent
  <2>2. QED
    BY <2>1, MeantNow, MeantThen DEF MeantIs
<1>7. b # ROOT => Len(file[ROOT]) >= b
  BY <1>1
<1>8. /\ s \in Seq(Stored) /\ Len(s) = b + Len(file[b])
      /\ (b # ROOT => \A i \in 1..b : s[i] = file[ROOT][i])
      /\ (\A i \in 1..Len(file[b]) : s[b + i] = file[b][i])
  <2>1. file \in [Base -> Seq(Stored)] /\ ROOT \in Base /\ b \in Nat
    BY <1>1
  <2>2. Joins(chain_of(file, b), file, b)
    BY <1>7, <2>1, ChainAt
  <2>3. QED
    BY <1>6, <2>2, Zenon DEF Joins
<1>9. /\ t \in Seq(Stored) /\ Len(t) = b + Len(w)
      /\ (b # ROOT => \A i \in 1..b : t[i] = file'[ROOT][i])
      /\ (\A i \in 1..Len(w) : t[b + i] = w[i])
  <2>1. b # ROOT => Len(file'[ROOT]) >= b
    BY <1>1, <1>5
  <2> DEFINE f == file'
  <2>2. f \in [Base -> Seq(Stored)] /\ f[b] = w /\ t = chain_of(f, b) /\ (b # ROOT => Len(f[ROOT]) >= b)
    BY <1>5, <1>6, <2>1
  <2>3. ROOT \in Base /\ b \in Nat
    BY <1>1
  <2> HIDE DEF f
  <2>4. Joins(chain_of(f, b), f, b)
    BY <2>2, <2>3, ChainAt
  <2>5. Joins(t, f, b)
    BY <2>2, <2>4
  <2> HIDE DEF t
  <2>6. QED
    BY <2>2, <2>5, Zenon DEF f, Joins
<1>10. b + off \in (V + 1)..Len(s) /\ Len(t) = (b + off) + Len(data)
  BY <1>1, <1>2, <1>3, <1>8, <1>9
<1>11. ASSUME NEW c \in Base \ {b} PROVE chain_of(meant', c) = chain_of(meant, c)
  <2>1. CASE c = ROOT
    BY <1>5, <1>6, <2>1 DEF chain_of
  <2>2. CASE c # ROOT
    <3>1. b = ROOT /\ off = Len(file[ROOT]) /\ file'[c] = file[c] /\ file'[ROOT] = w
          /\ c \in 0..Len(file[ROOT]) /\ Len(w) \in Nat /\ off <= Len(w) /\ w \in Seq(Stored)
      BY <1>1, <1>2, <1>3, <1>5, <2>2
    <3>2. \A i \in 1..c : w[i] = file[ROOT][i]
      <4>1. \A i \in 1..c : i \in 1..off
        BY <1>1, <3>1
      <4>2. QED
        BY <1>3, <3>1, <4>1
    <3>3. c \in 0..Len(w)
      BY <1>1, <3>1
    <3>4. file[ROOT] \in Seq(Stored)
      BY <1>1
    <3>5. /\ SubSeq(w, 1, c) \in Seq(Stored) /\ Len(SubSeq(w, 1, c)) = c
          /\ \A i \in 1..c : SubSeq(w, 1, c)[i] = w[i]
      BY <3>1, <3>3, SubSeqProperties
    <3>6. /\ SubSeq(file[ROOT], 1, c) \in Seq(Stored) /\ Len(SubSeq(file[ROOT], 1, c)) = c
          /\ \A i \in 1..c : SubSeq(file[ROOT], 1, c)[i] = file[ROOT][i]
      BY <3>1, <3>4, SubSeqProperties
    <3>7. SubSeq(w, 1, c) = SubSeq(file[ROOT], 1, c)
      BY <3>2, <3>5, <3>6, SeqEqual
    <3>8. QED
      BY <1>6, <2>2, <3>1, <3>7 DEF chain_of
  <2>3. QED
    BY <2>1, <2>2
<1> HIDE DEF s, t
<1>12. ASSUME NEW i \in 1..(b + off) PROVE t[i] = s[i]
  <2>1. CASE i > b
    <3>1. i - b \in 1..off /\ i - b \in 1..Len(w) /\ i - b \in 1..Len(file[b]) /\ b + (i - b) = i
      BY <1>1, <1>2, <1>3, <2>1
    <3>2. t[b + (i - b)] = w[i - b] /\ s[b + (i - b)] = file[b][i - b] /\ w[i - b] = file[b][i - b]
      BY <1>3, <1>8, <1>9, <3>1
    <3>3. QED
      BY <3>1, <3>2
  <2>2. CASE i <= b
    <3>1. b # ROOT /\ i \in 1..b /\ file'[ROOT] = file[ROOT]
      BY <1>1, <1>5, <2>2
    <3>2. QED
      BY <1>8, <1>9, <3>1
  <2>3. QED
    BY <1>1, <2>1, <2>2
<1>13. ASSUME NEW i \in 1..Len(data) PROVE t[(b + off) + i] = data[i]
  <2>1. off + i \in 1..Len(w) /\ b + (off + i) = (b + off) + i
    BY <1>1, <1>2, <1>3
  <2>2. t[b + (off + i)] = w[off + i] /\ w[off + i] = data[i]
    BY <1>3, <1>9, <2>1
  <2>3. QED
    BY <2>1, <2>2
<1>14. Live' = Live
  BY <1>4, <1>5 DEF Live
<1>15. QED
  BY <1>4, <1>5, <1>9, <1>10, <1>11, <1>12, <1>13, <1>14 DEF s, t, V

\* Headers that follow the top of a chain and one another are an Extend.
LEMMA PathExtend ==
    ASSUME StoreInv, PathInv, StoreInv', swapping = NoSwap, NEW b \in Base,
           NEW data \in Seq(Header), data # <<>>, Height[data[1]] = top(file, b) + 1,
           read_header(blockchains[b], top(file, b)) = Prev[data[1]],
           \A i \in 2..Len(data) : data[i] # Genesis /\ Prev[data[i]] = data[i - 1],
           Save(written(b, data, Len(file[b])), b)
    PROVE  PathInv' /\ Tracks /\ Grown
<1> DEFINE s == chain_of(meant, b)
           t == chain_of(meant', b)
           V == VERIFICATION_BLOCK_HEIGHT
           k == Len(s)
           o == blockchains[b]
<1>1. /\ b \in Nat /\ V \in Nat /\ Len(file[b]) \in Nat /\ meant = file /\ Len(file[b]) \in 0..Len(file[b])
      /\ Len(data) \in Nat /\ Len(data) > 0 /\ data[1] \in Header
  <2>1. Len(data) \in Nat /\ Len(data) > 0 /\ data[1] \in Header
    BY LenProperties, EmptySeq, ElementOfSeq
  <2>2. meant = file
    BY MeantNow DEF MeantIs
  <2>3. b \in Nat /\ V \in Nat /\ Len(file[b]) \in Nat
    BY StoreTypes DEF StoreInv, TypeOK
  <2>4. QED
    BY <2>1, <2>2, <2>3
<1>2. s \in Seq(Stored) /\ k = top(file, b) + 1 /\ k \in Nat /\ k > V
  BY <1>1, ChainFacts
<1>3. k = b + Len(file[b]) /\ top(file, b) \in V..top(file, b) /\ k - 1 = top(file, b)
  BY <1>1, <1>2 DEF top
<1>4. TipsAre /\ s \in Path
  BY TipsNow DEF TipsAre
<1>5. data[1] # Genesis /\ Prev[data[1]] \in Header
  BY <1>1, <1>2, HeaderAssumption
<1>6. link(s, k) = Prev[data[1]] /\ Height[data[1]] = k
  <2>1. link(s, top(file, b) + 1) = Prev[data[1]]
    BY <1>3, <1>5, ReadLink
  <2>2. QED
    BY <1>2, <2>1
<1>7. /\ Base' = Base /\ UNCHANGED blockchains /\ Live' = Live
      /\ (\A c \in Base \ {b} : chain_of(meant', c) = chain_of(meant, c))
      /\ t \in Seq(Stored) /\ Len(t) = k + Len(data) /\ k \in (V + 1)..k
      /\ (\A i \in 1..k : t[i] = s[i])
      /\ (\A i \in 1..Len(data) : t[k + i] = data[i])
  BY <1>1, <1>3, ChainSave, SMTT(60)
<1> HIDE DEF s, t, V, k
<1>8. t \in Path
  BY <1>4, <1>6, <1>7, PathSpliced DEF V, k
<1>9. \A c \in Base' : chain_of(meant', c) \in Path
  BY <1>4, <1>7, <1>8 DEF TipsAre, t
<1>10. PathInv' /\ TipsAre'
  BY <1>9, PathsMake
<1>11. tips' = [tips EXCEPT ![o] = last(t)]
  <2>1. o \in Chain /\ b \in Base' /\ o = blockchains'[b]
    BY <1>4, <1>7 DEF TipsAre
  <2>2. \A c \in Base' \ {b} : /\ c \in Base /\ blockchains'[c] = blockchains[c]
                               /\ last(chain_of(meant', c)) = last(chain_of(meant, c))
    BY <1>7
  <2>3. QED
    BY <1>4, <1>7, <1>10, <2>1, <2>2, TipsChange DEF t
<1>12. Chains!Below(last(s), last(t)) /\ last(t) # last(s) /\ last(t) \in Header
  <2>1. k \in (V + 1)..Len(t) /\ Len(t) \in (V + 1)..Len(t) /\ Len(t) # k /\ k \in 1..k /\ k \in Nat /\ Len(t) \in Nat
    BY <1>1, <1>2, <1>7 DEF V, k
  <2>2. link(t, k) = last(s)
    BY <1>7, <2>1 DEF link, last, k
  <2>3. Height[link(t, k)] = k - 1 /\ Height[last(t)] = Len(t) - 1 /\ last(t) \in Header
    BY <1>8, <2>1, PathFacts DEF V, last
  <2>4. Chains!Below(link(t, k), last(t))
    BY <1>8, <2>1, PathBelow DEF V
  <2>5. Height[last(s)] # Height[last(t)]
    BY <2>1, <2>2, <2>3
  <2>6. QED
    BY <2>2, <2>3, <2>4, <2>5
<1>13. o \in Chains!Known /\ o \in Chain /\ tips[o] = last(s)
  BY <1>4 DEF TipsAre, s
<1>14. blockchains'[ROOT] = blockchains[ROOT]
  BY <1>7
<1>15. Chains!Extend(o, last(t))
  BY <1>11, <1>12, <1>13, <1>14 DEF Chains!Extend
<1>16. Grown
  <2>1. at(last(t), Height[last(s)]) = last(s) /\ Height[last(s)] <= Height[last(t)]
    <3>1. k \in (V + 1)..Len(t) /\ k \in 1..k /\ k \in Nat /\ Len(t) \in Nat
      BY <1>1, <1>2, <1>7 DEF V, k
    <3>2. link(t, k) = last(s)
      BY <1>7, <3>1 DEF link, last, k
    <3>3. Height[last(s)] = k - 1 /\ Height[last(t)] = Len(t) - 1 /\ at(last(t), k - 1) = last(s)
      BY <1>8, <3>1, <3>2, PathAt, PathFacts DEF V
    <3>4. QED
      BY <3>1, <3>3
  <2>2. ASSUME NEW p \in Live, p # o
        PROVE  Height[tips[p]] <= Height[tips'[p]] /\ at(tips'[p], Height[tips[p]]) = tips[p]
    <3>1. tips'[p] = tips[p] /\ tips[p] \in Header
      BY <1>4, <1>11, <2>2 DEF TipsAre
    <3>2. QED
      BY <3>1, HeightFacts, AtFacts
  <2>3. tips'[o] = last(t)
    BY <1>4, <1>11, <1>13 DEF TipsAre
  <2>4. QED
    BY <1>13, <2>1, <2>2, <2>3 DEF Grown
<1>17. QED
  BY <1>10, <1>12, <1>13, <1>15, <1>16 DEF Tracks, Chains!Next

\* save_header: one header on top of a chain.
LEMMA PathSaveHeader ==
    ASSUME StoreInv, PathInv, StoreInv', NEW o \in Live, NEW h \in Header, save_header(o, h)
    PROVE  PathInv' /\ Tracks /\ Grown
<1> DEFINE b == base_height(o)
           d == <<h>>
<1>1. TypeOK /\ b \in Base /\ swapping = NoSwap /\ blockchains[b] = o
  BY BaseFacts DEF StoreInv, save_header
<1>2. b \in Nat /\ Len(file[b]) \in Nat /\ Height[h] \in Nat
  BY <1>1, StoreTypes, HeaderAssumption DEF TypeOK
<1>3. top(file, b) = Height[h] - 1 /\ (h # Genesis => read_header(o, Height[h] - 1) = Prev[h])
  BY DEF save_header, can_connect, height
<1>4. Height[h] - b = Len(file[b])
  BY <1>2, <1>3 DEF top
<1>5. Save(written(b, d, Len(file[b])), b)
  BY <1>4 DEF save_header
<1>6. top(file, b) >= VERIFICATION_BLOCK_HEIGHT /\ VERIFICATION_BLOCK_HEIGHT \in Nat /\ top(file, b) \in Int
  <2>1. height(o) >= VERIFICATION_BLOCK_HEIGHT
    BY HeightOfChain DEF VBH
  <2>2. QED
    BY <1>2, <2>1, HeaderAssumption DEF height, top
<1>7. h # Genesis
  BY <1>2, <1>3, <1>6, HeaderAssumption
<1>8. d \in Seq(Header) /\ d # <<>> /\ d[1] = h /\ Len(d) = 1
  OBVIOUS
<1> HIDE DEF d, b
<1>9. Height[d[1]] = top(file, b) + 1 /\ read_header(blockchains[b], top(file, b)) = Prev[d[1]]
  BY <1>1, <1>2, <1>3, <1>7, <1>8
<1>10. \A i \in 2..Len(d) : d[i] # Genesis /\ Prev[d[i]] = d[i - 1]
  BY <1>8
<1>11. QED
  BY <1>1, <1>5, <1>8, <1>9, <1>10, PathExtend

\* connect_chunk: a piece of a chain on top of a chain.
LEMMA PathChunk ==
    ASSUME ChunksLinked, StoreInv, PathInv, StoreInv', NEW o \in Live, NEW data \in Chunks,
           connect_chunk(o, data)
    PROVE  PathInv' /\ Tracks /\ Grown
<1> DEFINE b == base_height(o)
<1>1. TypeOK /\ b \in Base /\ swapping = NoSwap /\ blockchains[b] = o
      /\ data \in Seq(Header) /\ data # <<>>
  BY BaseFacts, HeaderAssumption DEF StoreInv, connect_chunk
<1>2. b \in Nat /\ Len(file[b]) \in Nat
  BY <1>1, StoreTypes DEF TypeOK
<1>3. Height[data[1]] = top(file, b) + 1 /\ read_header(o, top(file, b)) = Prev[data[1]]
  BY DEF connect_chunk, height
<1>4. Height[data[1]] - b = Len(file[b])
  BY <1>2, <1>3 DEF top
<1>5. Save(written(b, data, Len(file[b])), b)
  BY <1>4 DEF connect_chunk
<1>6. \A i \in 2..Len(data) : data[i] # Genesis /\ Prev[data[i]] = data[i - 1]
  BY DEF ChunksLinked
<1> HIDE DEF b
<1>7. QED
  BY <1>1, <1>3, <1>5, <1>6, PathExtend

\* A header below the top of a chain, and the one that follows it.
LEMMA PathConnects ==
    ASSUME StoreInv, PathInv, swapping = NoSwap, NEW o \in Live, NEW h \in Header,
           Height[h] > VERIFICATION_BLOCK_HEIGHT, can_connect(o, h, FALSE)
    PROVE  LET s == chain_of(meant, base_height(o))
           IN  /\ Height[h] \in (VERIFICATION_BLOCK_HEIGHT + 1)..Len(s)
               /\ link(s, Height[h]) = Prev[h] /\ Prev[h] \in Header
               /\ Chains!Below(Prev[h], tips[o]) /\ o \in Chains!Known
<1> DEFINE b == base_height(o)
           s == chain_of(meant, b)
           n == Height[h]
           V == VERIFICATION_BLOCK_HEIGHT
<1>1. TypeOK /\ b \in Base /\ blockchains[b] = o /\ meant = file
  BY BaseFacts, MeantNow DEF StoreInv, MeantIs
<1>2. n \in Nat /\ V \in Nat /\ h # Genesis /\ Prev[h] \in Header /\ n - 1 \in Nat /\ n > V
  BY HeaderAssumption
<1>3. read_header(o, n - 1) = Prev[h]
  BY <1>2 DEF can_connect
<1>4. s \in Path /\ tips[o] = last(s) /\ o \in Chains!Known
  BY <1>1, TipsNow DEF TipsAre
<1>5. Len(s) = top(file, b) + 1 /\ Len(s) \in Nat /\ Len(s) > V
  BY <1>1, ChainFacts
<1>6. n - 1 <= top(file, b)
  <2> SUFFICES ASSUME ~(n - 1 <= top(file, b)) PROVE FALSE
    OBVIOUS
  <2>1. b \in Nat /\ Len(file[b]) \in Nat
    BY <1>1, StoreTypes DEF TypeOK
  <2>2. n - 1 >= b /\ n - 1 \notin b..top(file, b)
    BY <1>2, <2>1 DEF top
  <2>3. owner(b, n - 1) = b
    BY <1>1, <1>2, <2>2, OwnerFacts
  <2>4. read_header(o, n - 1) = NoHeader
    BY <2>2, <2>3 DEF read_header, header_in
  <2>5. QED
    BY <1>2, <1>3, <2>4, HeaderAssumption
<1>7. n - 1 \in V..top(file, b) /\ (n - 1) + 1 = n /\ n \in (V + 1)..Len(s)
  <2>1. top(file, b) \in Int
    <3>1. b \in Nat /\ Len(file[b]) \in Nat
      BY <1>1, StoreTypes DEF TypeOK
    <3>2. QED
      BY <3>1 DEF top
  <2> HIDE DEF s, n, V
  <2>2. QED
    BY <1>2, <1>5, <1>6, <2>1
<1>8. link(s, n) = Prev[h]
  <2>1. link(s, (n - 1) + 1) = Prev[h]
    BY <1>1, <1>2, <1>3, <1>7, ReadLink
  <2>2. QED
    BY <1>7, <2>1
<1>9. Chains!Below(link(s, n), last(s))
  BY <1>4, <1>7, PathBelow
<1>10. QED
  BY <1>2, <1>4, <1>7, <1>8, <1>9

\* Up to the base of a fork all chains are the same.
LEMMA SharedTrunk ==
    ASSUME StoreInv, NEW b \in Base \ {ROOT}, NEW c \in Base
    PROVE  /\ \A i \in 1..b : chain_of(meant, c)[i] = chain_of(meant, b)[i]
           /\ link(chain_of(meant, c), b) = link(chain_of(meant, b), b)
<1>1. meant \in [Base -> Seq(Stored)] /\ ROOT \in Base /\ Len(meant[ROOT]) >= b /\ b \in Nat \ {0} /\ Base = {ROOT, b}
  BY MeantNow, StoreTypes DEF StoreInv, MeantIs
<1>2. Joins(chain_of(meant, b), meant, b)
  BY <1>1, ChainAt
<1>3. \A i \in 1..b : chain_of(meant, b)[i] = meant[ROOT][i]
  BY <1>2 DEF Joins
<1>4. chain_of(meant, ROOT) = meant[ROOT]
  BY DEF chain_of
<1>5. \A i \in 1..b : chain_of(meant, c)[i] = chain_of(meant, b)[i]
  BY <1>1, <1>3, <1>4
<1>6. b \in 1..b
  BY <1>1
<1>7. QED
  BY <1>5, <1>6 DEF link

\* replace: the fork file is started again with a header that branches off.
LEMMA PathReplace ==
    ASSUME StoreInv, PathInv, StoreInv', NEW o \in Live, NEW h \in Header, replace(o, h)
    PROVE  PathInv' /\ Tracks
<1> DEFINE b == Height[h]
           d == <<h>>
           s == chain_of(meant, b)
           t == chain_of(meant', b)
           V == VERIFICATION_BLOCK_HEIGHT
<1>1. /\ swapping = NoSwap /\ b \in Base /\ b > V /\ can_connect(o, h, FALSE)
      /\ Save(written(b, d, 0), b)
  BY DEF replace, replaceable
<1>2. b # ROOT /\ b \in Nat /\ V \in Nat
  BY <1>1, HeaderAssumption DEF ROOT
<1>3. TypeOK /\ base_height(o) \in Base
  BY BaseFacts DEF StoreInv
<1>4. /\ link(chain_of(meant, base_height(o)), b) = Prev[h]
      /\ Chains!Below(Prev[h], tips[o]) /\ o \in Chains!Known
  BY <1>1, PathConnects
<1>5. link(s, b) = Prev[h]
  BY <1>1, <1>2, <1>3, <1>4, SharedTrunk
<1>6. d \in Seq(Header) /\ Len(d) = 1 /\ d[1] = h /\ 0 \in 0..Len(file[b]) /\ b + 0 = b
  BY <1>1, <1>2, StoreTypes
<1> HIDE DEF d
<1>7. /\ Base' = Base /\ UNCHANGED blockchains /\ Live' = Live
      /\ (\A c \in Base \ {b} : chain_of(meant', c) = chain_of(meant, c))
      /\ t \in Seq(Stored) /\ Len(t) = (b + 0) + Len(d) /\ b + 0 \in (V + 1)..Len(s)
      /\ (\A i \in 1..(b + 0) : t[i] = s[i])
      /\ (\A i \in 1..Len(d) : t[(b + 0) + i] = d[i])
  BY <1>1, <1>2, <1>6, ChainSave
<1>8. TipsAre /\ s \in Path
  BY <1>1, TipsNow DEF TipsAre
<1> HIDE DEF s, t
<1>9. t \in Path
  <2>1. d # <<>> => Height[d[1]] = b /\ Prev[d[1]] = link(s, b)
    BY <1>5, <1>6
  <2>2. \A i \in 2..Len(d) : d[i] # Genesis /\ Prev[d[i]] = d[i - 1]
    BY <1>6
  <2>3. b \in (V + 1)..Len(s) /\ Len(t) = b + Len(d) /\ t \in Seq(Stored)
    BY <1>6, <1>7
  <2>4. \A i \in 1..b : t[i] = s[i]
    BY <1>6, <1>7
  <2>5. \A i \in 1..Len(d) : t[b + i] = d[i]
    BY <1>6, <1>7
  <2>6. QED
    BY <1>6, <1>8, <2>1, <2>2, <2>3, <2>4, <2>5, PathSpliced
<1>10. \A c \in Base' : chain_of(meant', c) \in Path
  BY <1>7, <1>8, <1>9 DEF TipsAre, t
<1>11. PathInv' /\ TipsAre'
  BY <1>10, PathsMake
<1>12. last(t) = h
  <2>1. Len(t) = b + 1 /\ 1 \in 1..Len(d) /\ b + 1 # V + 1
    BY <1>1, <1>2, <1>6, <1>7
  <2>2. t[b + 1] = h
    BY <1>6, <1>7, <2>1
  <2>3. QED
    BY <2>1, <2>2 DEF last, link
<1>13. tips' = [tips EXCEPT ![blockchains[b]] = h]
  <2>1. blockchains[b] \in Chain /\ b \in Base' /\ blockchains[b] = blockchains'[b]
    BY <1>1, <1>7, <1>8 DEF TipsAre
  <2>2. \A c \in Base' \ {b} : /\ c \in Base /\ blockchains'[c] = blockchains[c]
                               /\ last(chain_of(meant', c)) = last(chain_of(meant, c))
    BY <1>7
  <2>3. QED
    BY <1>7, <1>8, <1>11, <1>12, <2>1, <2>2, TipsChange DEF t
<1>14. blockchains[b] \in Chain /\ o \in Chain /\ blockchains[b] # blockchains[ROOT]
  BY <1>1, <1>2, <1>8 DEF TipsAre, StoreInv, TypeOK
<1>15. Chains!Branch(o, blockchains[b], h)
  BY <1>1, <1>4, <1>7, <1>13, <1>14 DEF Chains!Branch, VERIFICATION_BLOCK_HEIGHT
<1>16. QED
  BY <1>11, <1>14, <1>15 DEF Tracks, Chains!Next

\* A new fork file, with its first header or empty: a branch of the root's chain.
LEMMA PathNewFile ==
    ASSUME MaxForks <= 1, StoreInv, PathInv, NEW o \in Live, NEW h \in Header, branches(o, h),
           NEW data \in {<<h>>, <<>>}, new_file(o, Height[h], data),
           swapping' = NoSwap, crashes' \in 0..MaxCrashes
    PROVE  LET b == Height[h]
           IN  /\ PathInv' /\ TipsAre' /\ o = blockchains[ROOT] /\ Base = {ROOT} /\ Base' = {ROOT, b}
               /\ blockchains'[ROOT] = blockchains[ROOT] /\ blockchains'[b] \in Chain \ Live
               /\ chain_of(meant', ROOT) = chain_of(meant, ROOT)
               /\ tips' = [tips EXCEPT ![blockchains'[b]] = last(chain_of(meant', b))]
               /\ last(chain_of(meant', b)) = IF data = <<>> THEN Prev[h] ELSE h
<1> DEFINE b == Height[h]
           s == chain_of(meant, ROOT)
           t == chain_of(meant', b)
           V == VERIFICATION_BLOCK_HEIGHT
<1>1. /\ swapping = NoSwap /\ b \in Nat \ Base /\ b > V /\ can_connect(o, h, FALSE)
      /\ Cardinality(Base) <= MaxForks /\ height(o) >= b /\ V \in Nat
  BY HeaderAssumption DEF branches
<1>2. data \in Seq(Header) /\ Len(data) <= 1 /\ Len(data) \in Nat
      /\ (data = <<>> => Len(data) = 0) /\ (data # <<>> => Len(data) = 1 /\ data[1] = h)
  <2>1. CASE data = <<h>>
    <3>1. Len(data) = 1 /\ data[1] = h /\ data \in Seq(Header) /\ data # <<>>
      BY <2>1
    <3>2. QED
      BY <3>1
  <2>2. CASE data = <<>>
    <3>1. Len(data) = 0 /\ data \in Seq(Header)
      BY <2>2
    <3>2. QED
      BY <2>2, <3>1
  <2>3. QED
    BY <2>1, <2>2
<1>3. /\ StoreInv' /\ Base' = {ROOT, b} /\ blockchains'[b] \in Chain \ Live
      /\ blockchains'[ROOT] = blockchains[ROOT] /\ file'[ROOT] = file[ROOT] /\ file'[b] = data
  BY <1>1, <1>2, StoreNewFile
<1>4. Base = {ROOT} /\ b # ROOT /\ ROOT = 0
  <2>1. Base' = Base \cup {b}
    BY DEF new_file, Base
  <2>2. ROOT \in Base
    BY StoreTypes
  <2>3. QED
    BY <1>1, <1>3, <2>1, <2>2 DEF ROOT
<1>5. base_height(o) = ROOT /\ o = blockchains[ROOT]
  BY <1>4, BaseFacts DEF StoreInv
<1>6. /\ b \in (V + 1)..Len(s) /\ link(s, b) = Prev[h] /\ Prev[h] \in Header
  BY <1>1, <1>5, PathConnects
<1>7. TipsAre /\ s \in Path
  BY TipsNow DEF TipsAre
<1>8. meant = file /\ meant' = file' /\ s = file[ROOT] /\ chain_of(meant', ROOT) = s
  BY <1>1, <1>3, MeantNow, MeantThen DEF MeantIs, chain_of
<1>9. /\ t \in Seq(Stored) /\ Len(t) = b + Len(data)
      /\ (\A i \in 1..b : t[i] = s[i])
      /\ (\A i \in 1..Len(data) : t[b + i] = data[i])
  <2>1. meant' \in [Base' -> Seq(Stored)] /\ (b # ROOT => Len(meant'[ROOT]) >= b)
    BY <1>3, MeantThen DEF MeantIs
  <2> DEFINE f == meant'
             B == Base'
  <2>2. f \in [B -> Seq(Stored)] /\ (b # ROOT => Len(f[ROOT]) >= b) /\ ROOT \in B /\ b \in B /\ b \in Nat
    BY <1>1, <1>3, <2>1
  <2>3. f[ROOT] = s /\ f[b] = data
    BY <1>3, <1>8
  <2> HIDE DEF f, B
  <2>4. Joins(chain_of(f, b), f, b)
    BY <2>2, ChainAt
  <2>5. Joins(t, f, b)
    BY <2>4 DEF f
  <2> HIDE DEF s, t
  <2>6. QED
    BY <1>4, <2>3, <2>5, Zenon DEF Joins
<1> HIDE DEF s, t
<1>10. t \in Path
  <2>1. data # <<>> => Height[data[1]] = b /\ Prev[data[1]] = link(s, b)
    BY <1>2, <1>6
  <2>2. \A i \in 2..Len(data) : data[i] # Genesis /\ Prev[data[i]] = data[i - 1]
    BY <1>2
  <2>3. QED
    BY <1>2, <1>6, <1>7, <1>9, <2>1, <2>2, PathSpliced
<1>11. \A c \in Base' : chain_of(meant', c) \in Path
  BY <1>3, <1>7, <1>8, <1>10 DEF t
<1>12. PathInv' /\ TipsAre'
  BY <1>3, <1>11, PathsMake
<1>13. tips' = [tips EXCEPT ![blockchains'[b]] = last(t)]
  <2>1. \A c \in Base' \ {b} : /\ c \in Base /\ blockchains'[c] = blockchains[c]
                               /\ last(chain_of(meant', c)) = last(chain_of(meant, c))
    BY <1>3, <1>4, <1>8 DEF s
  <2>2. blockchains'[b] \in Chain /\ b \in Base'
    BY <1>3
  <2>3. Live' = Live \cup {blockchains'[b]}
    BY <1>3, <1>4 DEF Live
  <2>4. QED
    BY <1>7, <1>12, <2>1, <2>2, <2>3, TipsChange DEF t
<1>14. last(t) = IF data = <<>> THEN Prev[h] ELSE h
  <2>1. CASE data = <<>>
    <3>1. Len(t) = b /\ b \in 1..b
      BY <1>1, <1>2, <1>9, <2>1
    <3>2. last(t) = link(s, b)
      BY <1>9, <3>1 DEF last, link
    <3>3. QED
      BY <1>6, <2>1, <3>2
  <2>2. CASE data # <<>>
    <3>1. Len(t) = b + 1 /\ 1 \in 1..Len(data) /\ b + 1 # V + 1 /\ data[1] = h
      BY <1>1, <1>2, <1>9, <2>2
    <3>2. t[b + 1] = h
      BY <1>9, <3>1
    <3>3. QED
      BY <2>2, <3>1, <3>2 DEF last, link
  <2>3. QED
    BY <2>1, <2>2
<1>15. QED
  BY <1>3, <1>4, <1>5, <1>8, <1>12, <1>13, <1>14 DEF s, t

\* fork: the new object's chain branches off the root's.
LEMMA PathFork ==
    ASSUME MaxForks <= 1, StoreInv, PathInv, NEW o \in Live, NEW h \in Header, fork(o, h)
    PROVE  PathInv' /\ Tracks /\ Grown
<1> DEFINE b == Height[h]
           d == <<h>>
           new == blockchains'[b]
<1>1. branches(o, h) /\ new_file(o, b, d) /\ swapping' = NoSwap /\ crashes' \in 0..MaxCrashes
  BY DEF fork, branches, StoreInv, TypeOK
<1>2. d # <<>> /\ d \in {<<h>>, <<>>}
  OBVIOUS
<1> HIDE DEF d
<1>3. /\ PathInv' /\ o = blockchains[ROOT] /\ blockchains'[ROOT] = blockchains[ROOT] /\ new \in Chain \ Live
      /\ tips' = [tips EXCEPT ![new] = last(chain_of(meant', b))]
      /\ last(chain_of(meant', b)) = IF d = <<>> THEN Prev[h] ELSE h
  BY <1>1, <1>2, PathNewFile
<1>4. /\ swapping = NoSwap /\ b > VERIFICATION_BLOCK_HEIGHT /\ can_connect(o, h, FALSE)
  BY <1>1 DEF branches
<1>5. Chains!Below(Prev[h], tips[o]) /\ o \in Chains!Known
  BY <1>4, PathConnects
<1>6. o \in Chain /\ new # blockchains[ROOT] /\ new \in Chain
  BY <1>3, TipsNow DEF TipsAre
<1>7. tips' = [tips EXCEPT ![new] = h]
  BY <1>2, <1>3
<1> HIDE DEF new
<1>8. Chains!Branch(o, new, h)
  BY <1>3, <1>4, <1>5, <1>6, <1>7 DEF Chains!Branch, VERIFICATION_BLOCK_HEIGHT
<1>9. Grown
  <2>1. \A p \in Live : tips'[p] = tips[p] /\ tips[p] \in Header
    BY <1>3, <1>7, TipsNow DEF TipsAre
  <2>2. QED
    BY <2>1, HeightFacts, AtFacts DEF Grown
<1>10. QED
  BY <1>3, <1>6, <1>8, <1>9 DEF Tracks, Chains!Next

\* A restart: each chain ends in one that was there, and one goes on from the root's.
LEMMA Restarts ==
    ASSUME TipsAre, TipsAre',
           \A d \in Base' : \E c \in Base :
              Chains!Below(last(chain_of(meant', d)), last(chain_of(meant, c))),
           \E d \in Base' : Chains!Below(last(chain_of(meant, ROOT)), last(chain_of(meant', d)))
    PROVE  Tracks
<1>1. NoHeader \notin Header
  BY HeaderAssumption
<1>2. /\ tips' \in [Chain -> Header \cup {NoHeader}] /\ blockchains'[ROOT] \in Chain
      /\ tips'[blockchains'[ROOT]] # NoHeader
  BY <1>1 DEF TipsAre
<1>3. ASSUME NEW d \in Chain, tips'[d] # NoHeader
      PROVE  \E c \in Chains!Known : Chains!Below(tips'[d], tips[c])
  <2>1. PICK a \in Base' : d = blockchains'[a]
    BY <1>3 DEF TipsAre
  <2>2. PICK c \in Base : Chains!Below(last(chain_of(meant', a)), last(chain_of(meant, c)))
    BY <2>1
  <2>3. tips'[d] = last(chain_of(meant', a))
    BY <2>1 DEF TipsAre
  <2>4. blockchains[c] \in Chains!Known /\ tips[blockchains[c]] = last(chain_of(meant, c))
    BY DEF TipsAre
  <2>5. QED
    BY <2>2, <2>3, <2>4
<1>4. \E d \in Chain : tips'[d] # NoHeader /\ Chains!Below(tips[blockchains[ROOT]], tips'[d])
  <2>1. PICK a \in Base' : Chains!Below(last(chain_of(meant, ROOT)), last(chain_of(meant', a)))
    OBVIOUS
  <2>2. tips[blockchains[ROOT]] = last(chain_of(meant, ROOT))
    BY DEF TipsAre
  <2>3. /\ blockchains'[a] \in Chain /\ tips'[blockchains'[a]] = last(chain_of(meant', a))
        /\ tips'[blockchains'[a]] # NoHeader
    BY <1>1 DEF TipsAre
  <2>4. QED
    BY <2>1, <2>2, <2>3
<1>5. Chains!Restart
  BY <1>2, <1>3, <1>4 DEF Chains!Restart
<1>6. QED
  BY <1>5 DEF Tracks, Chains!Next

\* The chains on the disk are those the objects stood for or lack their ends,
\* and the root's is there.
LEMMA PathCrash ==
    ASSUME StoreInv, PathInv, StoreInv', swapping' = NoSwap, Base' = Base,
           \A d \in Base : \E c \in Base : Cut(chain_of(file', d), chain_of(meant, c)),
           \E d \in Base : Cut(chain_of(meant, ROOT), chain_of(file', d))
    PROVE  PathInv' /\ Tracks
<1>1. TipsAre /\ meant' = file'
  BY TipsNow, MeantThen DEF MeantIs
<1>2. ASSUME NEW d \in Base
      PROVE  /\ chain_of(meant', d) \in Path
             /\ \E c \in Base : Chains!Below(last(chain_of(meant', d)), last(chain_of(meant, c)))
  <2>1. PICK c \in Base : Cut(chain_of(file', d), chain_of(meant, c))
    OBVIOUS
  <2>2. chain_of(meant, c) \in Path
    BY <1>1 DEF TipsAre
  <2> DEFINE s == chain_of(meant, c)
             t == chain_of(file', d)
  <2>3. s \in Path /\ Cut(t, s)
    BY <2>1, <2>2
  <2> HIDE DEF s, t
  <2>4. t \in Path /\ Chains!Below(last(t), last(s))
    BY <2>3, PathCut DEF Cut
  <2>5. QED
    BY <1>1, <2>4 DEF s, t
<1>3. PathInv' /\ TipsAre'
  BY <1>2, PathsMake
<1>4. \E d \in Base' : Chains!Below(last(chain_of(meant, ROOT)), last(chain_of(meant', d)))
  <2>1. PICK d \in Base : Cut(chain_of(meant, ROOT), chain_of(file', d))
    OBVIOUS
  <2> DEFINE s == chain_of(meant, ROOT)
             t == chain_of(meant', d)
  <2>2. Cut(s, t) /\ t \in Path
    BY <1>1, <1>2, <2>1
  <2> HIDE DEF s, t
  <2>3. Chains!Below(last(s), last(t))
    BY <2>2, PathCut DEF Cut
  <2>4. QED
    BY <2>3 DEF s, t
<1>5. Tracks
  BY <1>1, <1>2, <1>3, <1>4, Restarts
<1>6. QED
  BY <1>3, <1>5

\* What is left of x when its end is missing.
Begins(d, x) == d \in Seq(Stored) /\ Len(d) \in 0..Len(x) /\ \A i \in 1..Len(d) : d[i] = x[i]

\* The beginnings of x: x, nothing, and what a torn write leaves.
LEMMA BeginsFacts ==
    ASSUME NEW x \in Seq(Stored)
    PROVE  /\ Begins(x, x) /\ Begins(<<>>, x)
           /\ \A d \in torn(x) : Begins(d, x)
<1>1. Len(x) \in Nat
  BY LenProperties
<1>2. Begins(x, x)
  BY <1>1 DEF Begins
<1>3. Begins(<<>>, x)
  <2> DEFINE e == << >>
  <2>1. e \in Seq(Stored) /\ Len(e) = 0
    OBVIOUS
  <2> HIDE DEF e
  <2>2. Begins(e, x)
    BY <1>1, <2>1 DEF Begins
  <2>3. QED
    BY <2>2 DEF e
<1>4. ASSUME NEW d \in torn(x) PROVE Begins(d, x)
  <2>1. PICK n \in 0..Len(x) : d = SubSeq(x, 1, n)
    BY DEF torn
  <2>2. d \in Seq(Stored) /\ Len(d) = n /\ \A i \in 1..n : d[i] = x[i]
    BY <2>1, SubSeqProperties
  <2>3. QED
    BY <1>1, <2>2 DEF Begins
<1>5. QED
  BY <1>2, <1>3, <1>4

\* Two sequences with the same trunk.
LEMMA TrunkCut ==
    ASSUME NEW p \in Seq(Stored), Len(p) > VERIFICATION_BLOCK_HEIGHT,
           NEW x \in Seq(Stored), NEW d, Begins(d, x)
    PROVE  Cut(p \o d, p \o x)
<1> DEFINE n == Len(p)
           V == VERIFICATION_BLOCK_HEIGHT
           s == p \o d
           t == p \o x
<1>1. d \in Seq(Stored) /\ Len(d) \in 0..Len(x) /\ (\A i \in 1..Len(d) : d[i] = x[i]) /\ Len(x) \in Nat /\ n \in Nat /\ V \in Nat
  BY LenProperties, HeaderAssumption DEF Begins
<1>2. s \in Seq(Stored) /\ Len(s) = n + Len(d) /\ (\A i \in 1..n : s[i] = p[i])
      /\ \A i \in 1..Len(d) : s[n + i] = d[i]
  BY <1>1, ConcatProperties
<1>3. t \in Seq(Stored) /\ Len(t) = n + Len(x) /\ (\A i \in 1..n : t[i] = p[i])
      /\ \A i \in 1..Len(x) : t[n + i] = x[i]
  BY <1>1, ConcatProperties
<1> HIDE DEF n, s, t, V
<1>4. ASSUME NEW i \in 1..Len(s) PROVE s[i] = t[i]
  <2>1. CASE i \in 1..n
    BY <1>2, <1>3, <2>1
  <2>2. CASE i \notin 1..n
    <3>1. i - n \in 1..Len(d) /\ i - n \in 1..Len(x) /\ n + (i - n) = i
      BY <1>1, <1>2, <2>2
    <3>2. s[n + (i - n)] = d[i - n] /\ t[n + (i - n)] = x[i - n]
      BY <1>2, <1>3, <3>1
    <3>3. QED
      BY <1>1, <3>1, <3>2
  <2>3. QED
    BY <2>1, <2>2
<1>5. n > V
  BY DEF n, V
<1>6. Len(s) \in (V + 1)..Len(t)
  BY <1>1, <1>2, <1>3, <1>5
<1>7. QED
  BY <1>2, <1>4, <1>6 DEF Cut, s, t, V

\* The trunk is what precedes the branch.
LEMMA TrunkBack ==
    ASSUME NEW p \in Seq(Stored), NEW b, Len(p) = b, NEW x \in Seq(Stored)
    PROVE  SubSeq(p \o x, 1, b) = p
<1> DEFINE w == p \o x
           q == SubSeq(w, 1, b)
<1>1. b \in Nat /\ Len(x) \in Nat
  BY LenProperties
<1>2. w \in Seq(Stored) /\ Len(w) = b + Len(x) /\ \A i \in 1..b : w[i] = p[i]
  <2>1. w \in Seq(Stored) /\ Len(w) = Len(p) + Len(x)
    BY ConcatProperties
  <2>2. \A i \in 1..Len(p) : w[i] = p[i]
    <3>1. Len(p) \in Nat
      BY LenProperties
    <3>2. QED
      BY <1>1, <3>1, ConcatProperties
  <2>3. QED
    BY <2>1, <2>2
<1> HIDE DEF w
<1>3. b \in 0..Len(w)
  BY <1>1, <1>2
<1>4. q \in Seq(Stored) /\ Len(q) = b /\ \A i \in 1..b : q[i] = w[i]
  BY <1>2, <1>3, SubSeqProperties
<1>5. q = p
  BY <1>2, <1>4, SeqEqual
<1>6. QED
  BY <1>5 DEF w, q

\* The chains of a root file and a fork file with a common trunk.
LEMMA TrunkChain ==
    ASSUME NEW f, NEW b, b # ROOT, NEW p \in Seq(Stored), Len(p) = b,
           NEW x \in Seq(Stored), f[ROOT] = p \o x
    PROVE  chain_of(f, ROOT) = p \o x /\ chain_of(f, b) = p \o f[b]
  BY TrunkBack DEF chain_of

\* Half-way through an exchange: the trunk, and the two branches the chains
\* go on with.
Trunked(p, b) ==
    /\ p = SubSeq(file[ROOT], 1, b) /\ p \in Seq(Stored) /\ Len(p) = b
    /\ chain_of(meant, ROOT) = p \o swapping.parent_data
    /\ chain_of(meant, b) = p \o swapping.my_data
    /\ file[ROOT] = p \o (IF swapping.step = "both" THEN swapping.my_data ELSE swapping.parent_data)
    /\ file[b] = IF swapping.step = "read" THEN swapping.my_data ELSE swapping.parent_data

\* Trunked holds all through an exchange.
LEMMA ExchangeChains ==
    ASSUME StoreInv, swapping # NoSwap
    PROVE  Trunked(SubSeq(file[ROOT], 1, swapping.base), swapping.base)
<1> DEFINE b == swapping.base
           p == SubSeq(file[ROOT], 1, b)
           my == swapping.my_data
           pd == swapping.parent_data
<1>1. /\ b \in Base \ {ROOT} /\ ROOT \in Base /\ b \in Nat /\ b \in 0..Len(file[ROOT])
      /\ my \in Seq(Stored) /\ pd \in Seq(Stored) /\ file[ROOT] \in Seq(Stored)
  BY ExchangeFacts, StoreTypes
<1>2. p \in Seq(Stored) /\ Len(p) = b
  BY <1>1, SubSeqProperties
<1>3. /\ meant \in [Base -> Seq(Stored)] /\ meant[b] = my /\ meant[ROOT] = p \o pd
  BY MeantNow DEF MeantIs
<1>4. chain_of(meant, ROOT) = p \o pd /\ chain_of(meant, b) = p \o my
  <2> HIDE DEF p, b, pd, my
  <2>1. /\ b # ROOT /\ p \in Seq(Stored) /\ Len(p) = b /\ pd \in Seq(Stored)
        /\ meant[ROOT] = p \o pd /\ meant[b] = my
    BY <1>1, <1>2, <1>3
  <2>2. chain_of(meant, ROOT) = p \o pd /\ chain_of(meant, b) = p \o meant[b]
    BY <2>1, TrunkChain
  <2>3. QED
    BY <2>1, <2>2
<1>5. /\ file[b] = IF swapping.step = "read" THEN my ELSE pd
      /\ SubSeq(file[ROOT], b + 1, Len(file[ROOT])) = IF swapping.step = "both" THEN my ELSE pd
  BY DEF StoreInv, ExchangeInv
<1>6. p \o SubSeq(file[ROOT], b + 1, Len(file[ROOT])) = file[ROOT]
  BY <1>1, Rejoined
<1>7. file[ROOT] = p \o (IF swapping.step = "both" THEN my ELSE pd)
  <2> HIDE DEF p, b, pd, my
  <2>1. QED
    BY <1>5, <1>6
<1>8. QED
  BY <1>2, <1>4, <1>5, <1>7 DEF Trunked

\* Two files that hold a trunk and ends of its two branches, one of them the
\* root's whole branch.
LEMMA LeftChains ==
    ASSUME StoreInv, swapping # NoSwap, NEW f \in [Base -> Seq(Stored)], NEW x, NEW y,
           \/ Begins(x, swapping.parent_data) \/ Begins(x, swapping.my_data),
           \/ Begins(y, swapping.parent_data) \/ Begins(y, swapping.my_data),
           x = swapping.parent_data \/ y = swapping.parent_data,
           f[ROOT] = SubSeq(file[ROOT], 1, swapping.base) \o x, f[swapping.base] = y
    PROVE  /\ \A d \in Base : \E c \in Base : Cut(chain_of(f, d), chain_of(meant, c))
           /\ \E d \in Base : Cut(chain_of(meant, ROOT), chain_of(f, d))
<1> DEFINE b == swapping.base
           p == SubSeq(file[ROOT], 1, b)
           my == swapping.my_data
           pd == swapping.parent_data
<1>1. /\ Base = {ROOT, b} /\ b \in Base \ {ROOT} /\ ROOT \in Base
      /\ my \in Seq(Stored) /\ pd \in Seq(Stored) /\ b > VERIFICATION_BLOCK_HEIGHT
  BY ExchangeFacts, StoreTypes
<1>2. /\ p \in Seq(Stored) /\ Len(p) = b
      /\ chain_of(meant, ROOT) = p \o pd /\ chain_of(meant, b) = p \o my
  BY ExchangeChains DEF Trunked
<1>3. f[ROOT] = p \o x /\ f[b] = y /\ (x = pd \/ y = pd)
      /\ (Begins(x, pd) \/ Begins(x, my)) /\ (Begins(y, pd) \/ Begins(y, my))
  OBVIOUS
<1> HIDE DEF p, b, pd, my
<1>4. x \in Seq(Stored)
  BY <1>3 DEF Begins
<1>5. chain_of(f, ROOT) = p \o x /\ chain_of(f, b) = p \o y
  <2>1. b # ROOT /\ Len(p) = b /\ f[ROOT] = p \o x /\ p \in Seq(Stored)
    BY <1>1, <1>2, <1>3
  <2>2. chain_of(f, ROOT) = p \o x /\ chain_of(f, b) = p \o f[b]
    BY <1>4, <2>1, TrunkChain
  <2>3. QED
    BY <1>3, <2>2
<1>6. Cut(p \o x, p \o pd) \/ Cut(p \o x, p \o my)
  BY <1>1, <1>2, <1>3, TrunkCut
<1>7. Cut(p \o y, p \o pd) \/ Cut(p \o y, p \o my)
  BY <1>1, <1>2, <1>3, TrunkCut
<1>8. Cut(p \o pd, p \o pd)
  BY <1>1, <1>2, BeginsFacts, TrunkCut
<1>9. QED
  BY <1>1, <1>2, <1>3, <1>5, <1>6, <1>7, <1>8, Zenon

\* A chain is its own beginning.
LEMMA CutSelf ==
    ASSUME StoreInv, NEW b \in Base
    PROVE  Cut(chain_of(meant, b), chain_of(meant, b))
<1> DEFINE s == chain_of(meant, b)
<1>1. s \in Seq(Stored) /\ Len(s) \in Nat /\ Len(s) > VERIFICATION_BLOCK_HEIGHT /\ VERIFICATION_BLOCK_HEIGHT \in Nat
  BY ChainFacts, HeaderAssumption
<1> HIDE DEF s
<1>2. Cut(s, s)
  BY <1>1 DEF Cut
<1>3. QED
  BY <1>2 DEF s

\* Nothing precedes what is written at the start of a file.
LEMMA WrittenAtStart ==
    ASSUME NEW s \in Seq(Stored), NEW d \in Seq(Stored)
    PROVE  SubSeq(s, 1, 0) \o d = d
<1> DEFINE w == SubSeq(s, 1, 0) \o d
<1>1. 0 \in 0..Len(s) /\ Len(d) \in Nat
  BY LenProperties
<1>2. w \in Seq(Stored) /\ Len(w) = 0 + Len(d) /\ \A i \in 1..Len(d) : w[0 + i] = d[i]
  BY <1>1, WrittenFacts
<1> HIDE DEF w
<1>3. Len(w) = Len(d) /\ \A i \in 1..Len(d) : w[i] = d[i]
  BY <1>1, <1>2
<1>4. w = d
  BY <1>2, <1>3, SeqEqual
<1>5. QED
  BY <1>4 DEF w

\* Wherever the program is killed, the disk has the chains or their beginnings.
LEMMA DiskChains ==
    ASSUME StoreInv, NEW f \in on_disk
    PROVE  /\ \A d \in Base : \E c \in Base : Cut(chain_of(f, d), chain_of(meant, c))
           /\ \E d \in Base : Cut(chain_of(meant, ROOT), chain_of(f, d))
<1>1. file \in [Base -> Seq(Stored)] /\ ROOT \in Base
  BY StoreTypes DEF StoreInv, TypeOK, Stored
<1>2. CASE swapping = NoSwap
  <2>1. f = meant
    BY <1>2, MeantNow DEF on_disk, MeantIs
  <2>2. QED
    BY <1>1, <2>1, CutSelf
<1>3. CASE swapping # NoSwap
  <2> DEFINE b == swapping.base
             p == SubSeq(file[ROOT], 1, b)
             my == swapping.my_data
             pd == swapping.parent_data
             Left(x, y) == f \in [Base -> Seq(Stored)] /\ f[ROOT] = p \o x /\ f[b] = y
  <2>1. /\ b \in Base \ {ROOT} /\ b \in Nat /\ parent[b] = ROOT /\ b - ROOT = b
        /\ my \in Seq(Stored) /\ pd \in Seq(Stored) /\ swapping.step \in {"read", "self", "both"}
    BY <1>3, ExchangeFacts DEF Exchange, ROOT
  <2>2. /\ p \in Seq(Stored)
        /\ file[ROOT] = p \o (IF swapping.step = "both" THEN my ELSE pd)
        /\ file[b] = IF swapping.step = "read" THEN my ELSE pd
    BY <1>3, ExchangeChains DEF Trunked
  <2>3. /\ Begins(pd, pd) /\ Begins(my, my) /\ (\A d \in torn(pd) : Begins(d, pd))
        /\ (\A d \in torn(my) : Begins(d, my))
    BY <2>1, BeginsFacts
  <2>4. CASE f = file
    <3>1. CASE swapping.step = "read"
      <4>1. Left(pd, my)
        BY <1>1, <2>2, <2>4, <3>1
      <4>2. QED
        BY <1>3, <2>3, <4>1, LeftChains
    <3>2. CASE swapping.step = "self"
      <4>1. Left(pd, pd)
        BY <1>1, <2>2, <2>4, <3>2
      <4>2. QED
        BY <1>3, <2>3, <4>1, LeftChains
    <3>3. CASE swapping.step = "both"
      <4>1. Left(my, pd)
        BY <1>1, <2>2, <2>4, <3>3
      <4>2. QED
        BY <1>3, <2>3, <4>1, LeftChains
    <3>4. QED
      BY <2>1, <3>1, <3>2, <3>3
  <2>5. CASE swapping.step = "read" /\ \E d \in torn(pd) : f = written(b, d, 0)
    <3>1. PICK d \in torn(pd) : f = written(b, d, 0)
      BY <2>5
    <3>2. Begins(d, pd) /\ d \in Seq(Stored)
      BY <2>3 DEF Begins
    <3>3. SubSeq(file[b], 1, 0) \o d = d
      BY <1>1, <2>1, <3>2, WrittenAtStart
    <3>4. f = [file EXCEPT ![b] = d]
      BY <3>1, <3>3 DEF written
    <3>5. Left(pd, d)
      BY <1>1, <2>1, <2>2, <2>5, <3>2, <3>4
    <3>6. QED
      BY <1>3, <2>3, <3>2, <3>5, LeftChains
  <2>6. CASE swapping.step = "self" /\ \E d \in torn(my) : f = written(ROOT, d, b)
    <3>1. PICK d \in torn(my) : f = written(ROOT, d, b)
      BY <2>6
    <3>2. Begins(d, my) /\ d \in Seq(Stored)
      BY <2>3 DEF Begins
    <3>3. f = [file EXCEPT ![ROOT] = p \o d]
      BY <3>1 DEF written
    <3>4. p \o d \in Seq(Stored)
      BY <2>2, <3>2, ConcatProperties
    <3>5. Left(d, pd)
      <4> HIDE DEF p, b
      <4>1. QED
        BY <1>1, <2>1, <2>2, <2>6, <3>2, <3>3, <3>4
    <3>6. QED
      BY <1>3, <2>3, <3>2, <3>5, LeftChains
  <2>7. QED
    BY <1>3, <2>1, <2>4, <2>5, <2>6 DEF on_disk
<1>4. QED
  BY <1>2, <1>3

\* A crash, anywhere in an exchange or outside one, is a Restart.
LEMMA PathCrashes ==
    ASSUME StoreInv, PathInv, StoreInv', crash
    PROVE  PathInv' /\ Tracks
<1>1. swapping' = NoSwap /\ file' \in on_disk
  BY DEF crash, read_blockchains
<1>2. Base' = Base
  BY <1>1, StoreDisk DEF Base
<1>3. QED
  BY <1>1, <1>2, DiskChains, PathCrash

\* A crash that leaves the new fork file empty: a chain that ends where the
\* fork would have branched off.
LEMMA PathCrashInFork ==
    ASSUME MaxForks <= 1, StoreInv, PathInv, NEW o \in Live, NEW h \in Header, crash_in_fork(o, h)
    PROVE  PathInv' /\ Tracks
<1> DEFINE b == Height[h]
           d == << >>
<1>1. branches(o, h) /\ new_file(o, b, d) /\ swapping' = NoSwap /\ crashes' \in 0..MaxCrashes
  BY HeaderAssumption DEF crash_in_fork, read_blockchains, StoreInv, TypeOK
<1>2. d = <<>> /\ d \in {<<h>>, <<>>}
  OBVIOUS
<1> HIDE DEF d
<1>3. /\ PathInv' /\ TipsAre' /\ o = blockchains[ROOT] /\ Base = {ROOT} /\ Base' = {ROOT, b}
      /\ chain_of(meant', ROOT) = chain_of(meant, ROOT)
      /\ last(chain_of(meant', b)) = IF d = <<>> THEN Prev[h] ELSE h
  BY <1>1, <1>2, PathNewFile
<1>4. /\ swapping = NoSwap /\ b > VERIFICATION_BLOCK_HEIGHT /\ can_connect(o, h, FALSE)
  BY <1>1 DEF branches
<1>5. Chains!Below(Prev[h], tips[o])
  BY <1>4, PathConnects
<1>6. TipsAre /\ tips[o] = last(chain_of(meant, ROOT))
  BY <1>3, TipsNow DEF TipsAre
<1>7. Chains!Below(last(chain_of(meant, ROOT)), last(chain_of(meant, ROOT)))
  <2> DEFINE s == chain_of(meant, ROOT)
  <2>1. s \in Path /\ Cut(s, s)
    BY <1>6, CutSelf DEF TipsAre
  <2> HIDE DEF s
  <2>2. Chains!Below(last(s), last(s))
    BY <2>1, PathCut DEF Cut
  <2>3. QED
    BY <2>2 DEF s
<1>8. last(chain_of(meant', b)) = Prev[h]
  BY <1>2, <1>3
<1>9. Tracks
  <2>1. \A c \in Base' : Chains!Below(last(chain_of(meant', c)), last(chain_of(meant, ROOT)))
    BY <1>3, <1>5, <1>6, <1>7, <1>8
  <2>2. ROOT \in Base /\ ROOT \in Base'
    BY <1>3
  <2>3. Chains!Below(last(chain_of(meant, ROOT)), last(chain_of(meant', ROOT)))
    BY <1>3, <1>7
  <2>4. QED
    BY <1>3, <1>6, <2>1, <2>2, <2>3, Restarts
<1>10. QED
  BY <1>3, <1>9

\* A crash that leaves the fork file emptied.
LEMMA PathCrashInReplace ==
    ASSUME StoreInv, PathInv, StoreInv', NEW o \in Live, NEW h \in Header, crash_in_replace(o, h)
    PROVE  PathInv' /\ Tracks
<1> DEFINE b == Height[h]
           e == << >>
           p == SubSeq(file[ROOT], 1, b)
<1>1. swapping' = NoSwap /\ swapping = NoSwap /\ b \in Base /\ b > VERIFICATION_BLOCK_HEIGHT
      /\ file' = written(b, e, 0)
  BY DEF crash_in_replace, replaceable, read_blockchains
<1>2. e \in Seq(Stored)
  OBVIOUS
<1> HIDE DEF e
<1>3. /\ file \in [Base -> Seq(Stored)] /\ ROOT \in Base /\ b # ROOT /\ Base = {ROOT, b}
      /\ b \in 0..Len(file[ROOT]) /\ meant = file /\ b \in Nat
  <2>1. b # ROOT /\ ROOT \in Base /\ b \in Nat /\ Len(file[ROOT]) \in Nat
    BY <1>1, HeaderAssumption, StoreTypes DEF ROOT
  <2>2. file \in [Base -> Seq(Stored)] /\ Base = {ROOT, b} /\ Len(file[ROOT]) >= b
    BY <1>1, <2>1 DEF StoreInv, TypeOK, Stored
  <2>3. meant = file
    BY <1>1, MeantNow DEF MeantIs
  <2>4. QED
    BY <2>1, <2>2, <2>3
<1>4. file' = [file EXCEPT ![b] = e]
  <2>1. SubSeq(file[b], 1, 0) \o e = e
    BY <1>1, <1>2, <1>3, WrittenAtStart
  <2>2. QED
    BY <1>1, <2>1 DEF written
<1>5. Base' = Base /\ file'[ROOT] = file[ROOT] /\ file'[b] = e
  BY <1>1, <1>3, <1>4 DEF Base
<1>6. p \in Seq(Stored) /\ Len(p) = b
  BY <1>3, SubSeqProperties
<1>7. chain_of(file', ROOT) = chain_of(meant, ROOT) /\ chain_of(file', b) = p \o e
      /\ chain_of(meant, b) = p \o file[b]
  BY <1>3, <1>5 DEF chain_of
<1>8. Cut(p \o e, p \o file[b])
  <2>1. file[b] \in Seq(Stored) /\ Begins(e, file[b])
    BY <1>1, <1>3, BeginsFacts DEF e
  <2>2. QED
    BY <1>1, <1>6, <2>1, TrunkCut
<1>9. Cut(chain_of(meant, ROOT), chain_of(meant, ROOT))
  BY <1>3, CutSelf
<1>10. QED
  <2>1. \A d \in Base : \E c \in Base : Cut(chain_of(file', d), chain_of(meant, c))
    BY <1>3, <1>7, <1>8, <1>9
  <2>2. \E d \in Base : Cut(chain_of(meant, ROOT), chain_of(file', d))
    BY <1>3, <1>7, <1>9
  <2>3. QED
    BY <1>1, <1>5, <2>1, <2>2, PathCrash

\* A step that leaves every chain where it ends is invisible.
LEMMA PathsStay ==
    ASSUME StoreInv, PathInv, StoreInv', Base' = Base, blockchains' = blockchains,
           \A c \in Base : /\ chain_of(meant', c) \in Path
                           /\ last(chain_of(meant', c)) = last(chain_of(meant, c))
    PROVE  PathInv' /\ Tracks /\ Grown
<1>1. TipsAre
  BY TipsNow
<1>2. PathInv' /\ TipsAre'
  BY PathsMake
<1> DEFINE o == blockchains[ROOT]
<1>3. o \in Chain /\ ROOT \in Base' /\ o = blockchains'[ROOT] /\ ROOT \in Base /\ Live' = Live
  BY <1>1 DEF TipsAre, Live
<1>4. tips' = [tips EXCEPT ![o] = last(chain_of(meant', ROOT))]
  BY <1>1, <1>2, <1>3, TipsChange
<1>5. last(chain_of(meant', ROOT)) = tips[o] /\ tips \in [Chain -> Header \cup {NoHeader}]
  BY <1>1, <1>3 DEF TipsAre
<1>6. tips' = tips
  <2> DEFINE h == last(chain_of(meant', ROOT))
  <2> HIDE DEF h, o
  <2>1. tips' = [tips EXCEPT ![o] = h] /\ h = tips[o] /\ tips \in [Chain -> Header \cup {NoHeader}]
    BY <1>4, <1>5 DEF h
  <2>2. QED
    BY <2>1
<1>7. QED
  BY <1>1, <1>2, <1>6, GrownSame DEF Tracks

\* Headers laid over the sparse part of a path leave a path.
LEMMA PathLaid ==
    ASSUME NEW s \in Path, NEW t \in Seq(Stored), Len(t) = Len(s),
           \A i \in 1..(VERIFICATION_BLOCK_HEIGHT + 1) : t[i] \in {s[i], Trunk[i]},
           \A i \in (VERIFICATION_BLOCK_HEIGHT + 2)..Len(s) : t[i] = s[i]
    PROVE  t \in Path /\ last(t) = last(s)
<1> DEFINE V == VERIFICATION_BLOCK_HEIGHT
<1>1. V \in Nat /\ Len(s) \in Nat /\ Len(s) > V /\ IsPath(s)
  BY HeaderAssumption, LenProperties DEF Path
<1>2. \A i \in (V + 1)..Len(s) : link(t, i) = link(s, i)
  <2> SUFFICES ASSUME NEW i \in (V + 1)..Len(s) PROVE link(t, i) = link(s, i)
    OBVIOUS
  <2>1. CASE i = V + 1
    BY <2>1 DEF link
  <2>2. CASE i # V + 1
    <3>1. i \in (V + 2)..Len(s)
      BY <1>1, <2>2
    <3>2. QED
      BY <3>1 DEF link
  <2>3. QED
    BY <2>1, <2>2
<1>3. \A i \in 1..(V + 1) : t[i] \in {NULL_HEADER, Trunk[i]}
  BY <1>1 DEF IsPath
<1>4. ASSUME NEW i \in (V + 2)..Len(t)
      PROVE  t[i] \in Header /\ Height[t[i]] = i - 1 /\ Prev[t[i]] = link(t, i - 1)
  <2>1. i \in (V + 2)..Len(s) /\ i - 1 \in (V + 1)..Len(s)
    BY <1>1
  <2>2. t[i] = s[i] /\ link(t, i - 1) = link(s, i - 1)
    BY <1>2, <2>1
  <2>3. QED
    BY <1>1, <2>1, <2>2 DEF IsPath
<1>5. t \in Path
  BY <1>1, <1>3, <1>4 DEF Path, IsPath
<1>6. Len(s) \in (V + 1)..Len(s)
  BY <1>1
<1>7. QED
  BY <1>2, <1>5, <1>6 DEF last

\* connect_proof: a part of the trunk.
LEMMA PathProof ==
    ASSUME StoreInv, PathInv, StoreInv', NEW lo \in 0..VERIFICATION_BLOCK_HEIGHT,
           NEW hi \in 0..VERIFICATION_BLOCK_HEIGHT, connect_proof(lo, hi)
    PROVE  PathInv' /\ Tracks /\ Grown
<1> DEFINE V == VERIFICATION_BLOCK_HEIGHT
           n == Len(file[ROOT])
           r == file[ROOT]
           w == [i \in DOMAIN r |-> IF i - 1 \in lo..hi THEN Trunk[i] ELSE r[i]]
<1>1. /\ n \in Nat /\ r \in Seq(Stored) /\ DOMAIN r = 1..n /\ V \in Nat /\ n > V
      /\ file \in [Base -> Seq(Stored)] /\ ROOT \in Base
  BY StoreTypes, LenProperties DEF StoreInv, TypeOK, Stored
<1>2. /\ \A i \in 1..(V + 1) : w[i] \in {r[i], Trunk[i]}
      /\ \A i \in (V + 2)..n : w[i] = r[i]
  <2>1. \A i \in 1..n : w[i] = IF i - 1 \in lo..hi THEN Trunk[i] ELSE r[i]
    BY <1>1
  <2>2. \A i \in 1..(V + 1) : i \in 1..n
    BY <1>1
  <2>3. \A i \in (V + 2)..n : i \in 1..n /\ i - 1 \notin lo..hi
    BY <1>1
  <2>4. QED
    BY <2>1, <2>2, <2>3
<1>3. /\ swapping = NoSwap /\ swapping' = NoSwap /\ blockchains' = blockchains
      /\ file' = [file EXCEPT ![ROOT] = w]
  BY DEF connect_proof
<1> HIDE DEF w
<1>4. Base' = Base /\ file'[ROOT] = w /\ (\A c \in Base \ {ROOT} : file'[c] = file[c])
      /\ meant = file /\ meant' = file' /\ w \in Seq(Stored) /\ Len(w) = n
  <2>1. Base' = Base /\ file'[ROOT] = w /\ (\A c \in Base \ {ROOT} : file'[c] = file[c])
    BY <1>1, <1>3 DEF Base
  <2>2. meant = file /\ meant' = file'
    BY <1>3, MeantNow, MeantThen DEF MeantIs
  <2>3. w \in Seq(Stored)
    BY <2>1, <2>2, <1>1, MeantThen DEF MeantIs
  <2>4. DOMAIN w = 1..n
    BY <1>1 DEF w
  <2>5. QED
    BY <1>1, <2>1, <2>2, <2>3, <2>4, LenProperties
<1>5. TipsAre
  BY TipsNow
<1>6. ASSUME NEW c \in Base
      PROVE  /\ chain_of(meant', c) \in Path
             /\ last(chain_of(meant', c)) = last(chain_of(meant, c))
  <2> DEFINE s == chain_of(meant, c)
             t == chain_of(meant', c)
  <2>1. s \in Path
    BY <1>5 DEF TipsAre
  <2>2. CASE c = ROOT
    <3>1. s = r /\ t = w
      BY <1>4, <2>2 DEF chain_of
    <3> HIDE DEF s, t, n, r
    <3>2. t \in Path /\ last(t) = last(s)
      BY <1>2, <1>4, <2>1, <3>1, PathLaid DEF n, r
    <3>3. QED
      BY <3>2 DEF s, t
  <2>3. CASE c # ROOT
    <3>1. c \in Nat /\ c > V /\ Len(file[ROOT]) >= c /\ file[c] \in Seq(Stored) /\ file'[c] = file[c]
      BY <1>1, <1>4, <2>3, StoreTypes DEF StoreInv
    <3>2. Joins(s, file, c)
      BY <1>1, <1>4, <3>1, ChainAt
    <3>3. Joins(t, file', c)
      <4> DEFINE f == file'
      <4>1. f \in [Base -> Seq(Stored)] /\ Len(f[ROOT]) >= c /\ t = chain_of(f, c)
        BY <1>4, <3>1, MeantThen DEF MeantIs
      <4> HIDE DEF f, t
      <4>2. Joins(chain_of(f, c), f, c)
        BY <1>1, <3>1, <4>1, ChainAt
      <4>3. QED
        BY <4>1, <4>2 DEF f
    <3> DEFINE d == file[c]
               m == Len(d)
    <3>4. /\ t \in Seq(Stored) /\ Len(t) = c + m /\ Len(s) = c + m /\ m \in Nat
          /\ (\A i \in 1..c : t[i] = w[i] /\ s[i] = r[i])
          /\ (\A i \in 1..m : t[c + i] = s[c + i])
      <4> HIDE DEF s, t
      <4>1. /\ Len(s) = c + Len(d) /\ Len(d) \in Nat
            /\ (\A i \in 1..c : s[i] = r[i]) /\ (\A i \in 1..Len(d) : s[c + i] = d[i])
        BY <2>3, <3>2, Zenon DEF Joins
      <4>2. /\ t \in Seq(Stored) /\ Len(t) = c + Len(d)
            /\ (\A i \in 1..c : t[i] = w[i]) /\ (\A i \in 1..Len(d) : t[c + i] = d[i])
        BY <1>4, <2>3, <3>1, <3>3, Zenon DEF Joins
      <4>3. QED
        BY <4>1, <4>2
    <3> HIDE DEF s, t, d, m, n, r
    <3>5. \A i \in 1..(V + 1) : t[i] \in {s[i], Trunk[i]}
      <4>1. \A i \in 1..(V + 1) : i \in 1..c
        BY <1>1, <3>1
      <4>2. QED
        BY <1>2, <3>4, <4>1
    <3>6. \A i \in (V + 2)..Len(s) : t[i] = s[i]
      <4> SUFFICES ASSUME NEW i \in (V + 2)..Len(s) PROVE t[i] = s[i]
        OBVIOUS
      <4>1. CASE i <= c
        <5>1. i \in 1..c /\ i \in (V + 2)..n
          BY <1>1, <3>1, <4>1 DEF n
        <5>2. QED
          BY <1>2, <3>4, <5>1
      <4>2. CASE i > c
        <5>1. i - c \in 1..m /\ c + (i - c) = i
          BY <1>1, <3>1, <3>4, <4>2
        <5>2. t[c + (i - c)] = s[c + (i - c)]
          BY <3>4, <5>1
        <5>3. QED
          BY <5>1, <5>2
      <4>3. QED
        BY <1>1, <3>1, <4>1, <4>2
    <3>7. t \in Path /\ last(t) = last(s)
      BY <2>1, <3>4, <3>5, <3>6, PathLaid
    <3>8. QED
      BY <3>7 DEF s, t
  <2>4. QED
    BY <2>2, <2>3
<1>7. QED
  BY <1>3, <1>4, <1>6, PathsStay

\* Two steps that rewrite a file in an exchange and leave what is meant.
LEMMA PathMeant ==
    ASSUME StoreInv, PathInv, StoreInv', Base' = Base, blockchains' = blockchains,
           swapping # NoSwap, swapping' # NoSwap, swapping'.base = swapping.base,
           swapping'.my_data = swapping.my_data, swapping'.parent_data = swapping.parent_data,
           SubSeq(file'[ROOT], 1, swapping.base) = SubSeq(file[ROOT], 1, swapping.base)
    PROVE  PathInv' /\ Tracks /\ Grown
<1> DEFINE b == swapping.base
<1>1. meant[b] = swapping.my_data
      /\ meant[ROOT] = SubSeq(file[ROOT], 1, b) \o swapping.parent_data
  BY MeantNow DEF MeantIs
<1>2. meant'[b] = swapping.my_data
      /\ meant'[ROOT] = SubSeq(file[ROOT], 1, b) \o swapping.parent_data
  BY MeantThen DEF MeantIs
<1>3. Base = {ROOT, b}
  BY ExchangeFacts
<1>4. \A c \in Base : chain_of(meant', c) = chain_of(meant, c)
  <2>1. meant'[ROOT] = meant[ROOT] /\ meant'[b] = meant[b]
    BY <1>1, <1>2
  <2>2. QED
    BY <1>3, <2>1 DEF chain_of
<1>5. \A c \in Base : chain_of(meant, c) \in Path
  BY TipsNow DEF TipsAre
<1>6. QED
  BY <1>4, <1>5, PathsStay

\* write_self changes no chain.
LEMMA PathWriteSelf ==
    ASSUME StoreInv, PathInv, StoreInv', write_self
    PROVE  PathInv' /\ Tracks /\ Grown
<1> DEFINE b == swapping.base
<1>1. /\ swapping # NoSwap /\ file' = [file EXCEPT ![b] = swapping.parent_data]
      /\ swapping' = [swapping EXCEPT !.step = "self"] /\ blockchains' = blockchains
  BY DEF write_self
<1>2. /\ swapping' \in Exchange /\ swapping'.base = b /\ swapping'.my_data = swapping.my_data
      /\ swapping'.parent_data = swapping.parent_data
  BY <1>1, ExchangeFacts DEF Exchange
<1>3. swapping' # NoSwap
  BY <1>2, HeaderAssumption
<1>4. b \in Base \ {ROOT} /\ ROOT \in Base /\ file \in [Base -> Seq(Stored)]
  BY <1>1, ExchangeFacts, StoreTypes DEF StoreInv, TypeOK, Stored
<1>5. Base' = Base /\ file'[ROOT] = file[ROOT]
  BY <1>1, <1>4 DEF Base
<1>6. QED
  BY <1>1, <1>2, <1>3, <1>5, PathMeant

\* write_parent changes no chain.
LEMMA PathWriteParent ==
    ASSUME StoreInv, PathInv, StoreInv', write_parent
    PROVE  PathInv' /\ Tracks /\ Grown
<1> DEFINE b == swapping.base
           p == SubSeq(file[ROOT], 1, b)
           w == p \o swapping.my_data
<1>1. swapping # NoSwap
  BY DEF write_parent
<1>2. /\ b \in Base \ {ROOT} /\ ROOT \in Base /\ file \in [Base -> Seq(Stored)] /\ parent[b] = ROOT
      /\ b - ROOT = b /\ b \in 0..Len(file[ROOT]) /\ swapping.my_data \in Seq(Stored)
  BY <1>1, ExchangeFacts, StoreTypes, SMTT(60) DEF StoreInv, TypeOK, Stored
<1>3. /\ file' = [file EXCEPT ![ROOT] = w]
      /\ swapping' = [swapping EXCEPT !.step = "both"] /\ blockchains' = blockchains
  BY <1>2 DEF write_parent, written
<1>4. /\ swapping' \in Exchange /\ swapping'.base = b /\ swapping'.my_data = swapping.my_data
      /\ swapping'.parent_data = swapping.parent_data
  BY <1>1, <1>3, ExchangeFacts DEF Exchange
<1>5. swapping' # NoSwap
  BY <1>4, HeaderAssumption
<1>6. p \in Seq(Stored) /\ Len(p) = b
  BY <1>2, SubSeqProperties
<1>7. SubSeq(w, 1, b) = p
  BY <1>2, <1>6, TrunkBack
<1> HIDE DEF w
<1>8. Base' = Base /\ file'[ROOT] = w
  BY <1>2, <1>3 DEF Base
<1>9. QED
  BY <1>1, <1>3, <1>4, <1>5, <1>7, <1>8, PathMeant

\* swap_pointers: the fork's object takes the root file with its longer chain.
LEMMA PathSwapPointers ==
    ASSUME StoreInv, PathInv, StoreInv', swap_pointers
    PROVE  PathInv' /\ Tracks /\ Grown
<1> DEFINE b == swapping.base
           p == SubSeq(file[ROOT], 1, b)
           my == swapping.my_data
           pd == swapping.parent_data
           R == chain_of(meant, ROOT)
           F == chain_of(meant, b)
<1>1. swapping # NoSwap /\ swapping.step = "both"
  BY DEF swap_pointers
<1>2. /\ Base = {ROOT, b} /\ b \in Base \ {ROOT} /\ my \in Seq(Stored) /\ pd \in Seq(Stored) /\ parent[b] = ROOT
      /\ Len(my) \in Nat /\ Len(pd) \in Nat /\ Len(my) > Len(pd) /\ ROOT \in Base /\ b \in Nat
  BY <1>1, ExchangeFacts, StoreTypes
<1>3. /\ blockchains' = [blockchains EXCEPT ![b] = blockchains[ROOT], ![ROOT] = blockchains[b]]
      /\ swapping' = NoSwap /\ file' = file /\ blockchains \in [Base -> Chain]
  BY <1>2 DEF swap_pointers, StoreInv, TypeOK
<1>4. /\ p \in Seq(Stored) /\ Len(p) = b /\ R = p \o pd /\ F = p \o my
      /\ file[ROOT] = p \o my /\ file[b] = pd
  BY <1>1, ExchangeChains DEF Trunked
<1>5. meant' = file
  BY <1>3, MeantThen DEF MeantIs
<1>6. chain_of(file, ROOT) = p \o my /\ chain_of(file, b) = p \o file[b]
  <2>1. b # ROOT /\ p \in Seq(Stored) /\ Len(p) = b /\ my \in Seq(Stored) /\ file[ROOT] = p \o my
    BY <1>2, <1>4
  <2> HIDE DEF p, my, pd, b
  <2>2. QED
    BY <2>1, TrunkChain
<1>7. chain_of(meant', ROOT) = F /\ chain_of(meant', b) = R
  BY <1>4, <1>5, <1>6
<1>8. TipsAre /\ R \in Path /\ F \in Path
  BY <1>2, TipsNow DEF TipsAre
<1>9. Base' = Base /\ blockchains'[ROOT] = blockchains[b] /\ blockchains'[b] = blockchains[ROOT]
  BY <1>2, <1>3 DEF Base
<1>10. Height[last(R)] = b + Len(pd) - 1 /\ Height[last(F)] = b + Len(my) - 1
  <2>1. Len(R) = b + Len(pd) /\ Len(F) = b + Len(my)
    BY <1>2, <1>4, ConcatProperties
  <2>2. Len(R) > VERIFICATION_BLOCK_HEIGHT /\ Len(F) > VERIFICATION_BLOCK_HEIGHT /\ VERIFICATION_BLOCK_HEIGHT \in Nat
    BY <1>8, HeaderAssumption DEF Path
  <2>3. Len(R) \in (VERIFICATION_BLOCK_HEIGHT + 1)..Len(R) /\ Len(F) \in (VERIFICATION_BLOCK_HEIGHT + 1)..Len(F)
    <3> HIDE DEF R, F, b, my, pd
    <3>1. QED
      BY <1>2, <2>1, <2>2
  <2>4. Height[last(R)] = Len(R) - 1 /\ Height[last(F)] = Len(F) - 1
    BY <1>8, <2>3, PathFacts DEF last
  <2> HIDE DEF R, F, b, my, pd
  <2>5. QED
    BY <1>2, <2>1, <2>4
<1> HIDE DEF R, F, b, my, pd, p
<1>11. PathInv' /\ TipsAre'
  <2>1. \A c \in Base' : chain_of(meant', c) \in Path
    BY <1>2, <1>7, <1>8, <1>9
  <2>2. QED
    BY <2>1, PathsMake
<1>12. Live = {blockchains[ROOT], blockchains[b]} /\ Live' = Live
  BY <1>2, <1>9 DEF Live
<1>13. /\ tips[blockchains[ROOT]] = last(R) /\ tips[blockchains[b]] = last(F)
       /\ tips'[blockchains[ROOT]] = last(R) /\ tips'[blockchains[b]] = last(F)
  <2>1. tips[blockchains[ROOT]] = last(R) /\ tips[blockchains[b]] = last(F)
    BY <1>2, <1>8 DEF TipsAre, R, F
  <2>2. tips'[blockchains'[ROOT]] = last(F) /\ tips'[blockchains'[b]] = last(R)
    BY <1>2, <1>7, <1>9, <1>11 DEF TipsAre
  <2>3. QED
    BY <1>9, <2>1, <2>2
<1>14. tips' = tips
  <2>1. tips \in [Chain -> Header \cup {NoHeader}] /\ tips' \in [Chain -> Header \cup {NoHeader}]
    BY <1>8, <1>11 DEF TipsAre
  <2>2. \A o \in Chain : tips'[o] = tips[o]
    <3>1. \A o \in Chain \ Live : tips[o] = NoHeader /\ tips'[o] = NoHeader
      BY <1>8, <1>11, <1>12 DEF TipsAre
    <3>2. QED
      BY <1>12, <1>13, <3>1
  <2>3. QED
    BY <2>1, <2>2
<1>15. blockchains[b] \in Chains!Known /\ blockchains[b] \in Chain
  BY <1>2, <1>8 DEF TipsAre
<1>16. Height[last(F)] > Height[last(R)]
  BY <1>2, <1>10
<1>17. Chains!Promote(blockchains[b])
  BY <1>9, <1>13, <1>14, <1>15, <1>16 DEF Chains!Promote
<1>18. QED
  BY <1>8, <1>11, <1>14, <1>15, <1>17, GrownSame DEF Tracks, Chains!Next

\* The first chain: the root's, which ends at the checkpoint.
LEMMA PathStart ==
    ASSUME StoreInv, swapping = NoSwap, Base = {ROOT},
           Len(file[ROOT]) = VERIFICATION_BLOCK_HEIGHT + 1,
           \A i \in 1..(VERIFICATION_BLOCK_HEIGHT + 1) : file[ROOT][i] \in {NULL_HEADER, Trunk[i]}
    PROVE  PathInv /\ Chains!Init
<1> DEFINE V == VERIFICATION_BLOCK_HEIGHT
           s == file[ROOT]
<1>1. V \in Nat
  BY HeaderAssumption
<1>2. chain_of(meant, ROOT) = s
  BY MeantNow DEF MeantIs, chain_of
<1>3. IsPath(s)
  <2>1. (V + 2)..Len(s) = {}
    BY <1>1
  <2>2. QED
    BY <2>1 DEF IsPath
<1>4. PathInv
  BY <1>2, <1>3 DEF PathInv
<1>5. last(s) = Checkpoint
  BY DEF last, link
<1>6. TipsAre
  BY <1>4, TipsNow
<1>7. Live = {blockchains[ROOT]}
  BY DEF Live
<1>8. blockchains[ROOT] \in Chain /\ tips[blockchains[ROOT]] = Checkpoint
      /\ tips \in [Chain -> Header \cup {NoHeader}]
      /\ \A o \in Chain \ {blockchains[ROOT]} : tips[o] = NoHeader
  BY <1>2, <1>5, <1>6, <1>7 DEF TipsAre
<1>9. tips = [c \in Chain |-> IF c = blockchains[ROOT] THEN Checkpoint ELSE NoHeader]
  BY <1>8
<1>10. QED
  BY <1>4, <1>8, <1>9 DEF Chains!Init

\* The store begins with its sparse root file.
LEMMA PathInit == Init => PathInv /\ Chains!Init
<1> SUFFICES ASSUME Init PROVE PathInv /\ Chains!Init
  OBVIOUS
<1> DEFINE V == VERIFICATION_BLOCK_HEIGHT
           s == [i \in 1..(V + 1) |-> NULL_HEADER]
<1>1. StoreInv /\ swapping = NoSwap /\ V \in Nat
  BY StoreInit, HeaderAssumption DEF Init
<1>2. file = [b \in {ROOT} |-> s] /\ Base = {ROOT}
  BY DEF Init, Base
<1>3. Len(s) = V + 1 /\ \A i \in 1..(V + 1) : s[i] = NULL_HEADER
  BY <1>1
<1> HIDE DEF s
<1>4. file[ROOT] = s
  BY <1>2
<1>5. QED
  BY <1>1, <1>2, <1>3, <1>4, PathStart

\* The same with the sparse part complete.
LEMMA SyncPathInit == SyncInit => PathInv /\ Chains!Init
<1> SUFFICES ASSUME SyncInit PROVE PathInv /\ Chains!Init
  OBVIOUS
<1>1. StoreInv
  BY SyncFirst DEF SyncInv
<1>2. file = [b \in {ROOT} |-> Trunk] /\ Base = {ROOT} /\ swapping = NoSwap
  BY DEF SyncInit, Base
<1>3. Len(Trunk) = VERIFICATION_BLOCK_HEIGHT + 1 /\ file[ROOT] = Trunk
  BY <1>2, HeaderAssumption
<1>4. QED
  BY <1>1, <1>2, <1>3, PathStart

\* Every step of the store is a step of HeaderChains or leaves its state alone.
LEMMA PathStep ==
    ASSUME MaxForks <= 1, ChunksLinked, StoreInv, PathInv, StoreInv', [Next]_vars
    PROVE  PathInv' /\ Tracks
<1>1. CASE \E o \in Live, h \in Header : save_header(o, h) \/ fork(o, h) \/ replace(o, h)
  BY <1>1, PathSaveHeader, PathFork, PathReplace
<1>2. CASE \E o \in Live, data \in Chunks : connect_chunk(o, data)
  BY <1>2, PathChunk
<1>3. CASE \E b, e \in 0..VERIFICATION_BLOCK_HEIGHT : connect_proof(b, e)
  BY <1>3, PathProof
<1>4. CASE write_self \/ write_parent \/ swap_pointers
  BY <1>4, PathWriteSelf, PathWriteParent, PathSwapPointers
<1>5. CASE crash
  BY <1>5, PathCrashes
<1>6. CASE \E o \in Live, h \in Header : crash_in_fork(o, h) \/ crash_in_replace(o, h)
  BY <1>6, PathCrashInFork, PathCrashInReplace
<1>7. CASE UNCHANGED vars
  <2>1. meant' = meant /\ Base' = Base /\ blockchains' = blockchains
    BY <1>7 DEF vars, meant, Base
  <2>2. \A c \in Base : chain_of(meant, c) \in Path
    BY TipsNow DEF TipsAre
  <2>3. QED
    BY <2>1, <2>2, PathsStay
<1>8. QED
  BY <1>1, <1>2, <1>3, <1>4, <1>5, <1>6, <1>7 DEF Next

\* With one fork file the store implements HeaderChains, for every tree of
\* headers and any number of crashes: each chain is a path of the tree that is
\* only extended, branched off or cut short, and an exchange of two files
\* (swap_with_parent) changes no chain, wherever it is killed.  The chunks have
\* to be pieces of chains: connect_chunk does not refuse one that is not.
THEOREM ChainsLinked ==
    ASSUME MaxForks <= 1, ChunksLinked
    PROVE  Spec => ChainsAreLinked
<1>1. Init => StoreInv /\ PathInv /\ Chains!Init
  BY StoreInit, PathInit
<1>2. StoreInv /\ PathInv /\ [Next]_vars => StoreInv' /\ PathInv' /\ Tracks
  BY StoreStep, PathStep
<1>3. QED
  BY <1>1, <1>2, PTL DEF Spec, ChainsAreLinked, Chains!Spec, Tracks

\* So does the store as the network thread drives it: whatever any number of
\* servers answer, the chains are paths of the tree (on_header,
\* on_block_headers, _process_latest_tip with connect_chunk and save_header).
THEOREM SyncChainsLinked ==
    ASSUME MaxForks <= 1, ChunksLinked
    PROVE  SyncSpec => ChainsAreLinked
<1>1. SyncInit => SyncInv /\ PathInv /\ Chains!Init
  BY SyncFirst, SyncPathInit
<1>2. SyncInv /\ PathInv /\ [SyncNext]_syncVars => SyncInv' /\ PathInv' /\ Tracks
  <2>1. SyncInv /\ [SyncNext]_syncVars => SyncInv' /\ [Next]_vars
    BY SyncNextStep DEF storeVars
  <2>2. SyncInv => StoreInv
    BY DEF SyncInv
  <2>3. SyncInv' => StoreInv'
    BY <2>2, PTL
  <2>4. QED
    BY <2>1, <2>2, <2>3, PathStep
<1>3. QED
  BY <1>1, <1>2, PTL DEF SyncSpec, ChainsAreLinked, Chains!Spec, Tracks

-----------------------------------------------------------------------------
(* The bracket of a search: with two branches, the chain a search stands on *)
(* keeps the header it was found to share with the server.                  *)

\* A chain has the headers that are read from it.
LEMMA ReadHas ==
    ASSUME StoreInv, PathInv, TrunkKept, swapping = NoSwap, NEW o \in Live, NEW h \in Header \ {Genesis}
    PROVE  check_header(o, h) <=> Has(o, h)
<1> DEFINE b == base_height(o)
           s == chain_of(meant, b)
           n == Height[h]
           V == VERIFICATION_BLOCK_HEIGHT
<1>1. /\ b \in Base /\ blockchains[b] = o /\ meant = file /\ b \in Nat /\ Len(file[b]) \in Nat
      /\ n \in Nat /\ V \in Nat /\ V = VBH
  BY BaseFacts, MeantNow, HeightFacts, StoreTypes, HeaderAssumption DEF StoreInv, TypeOK, MeantIs, VBH
<1>2. /\ Len(s) = top(file, b) + 1 /\ Len(s) \in Nat /\ Len(s) > V
      /\ \A i \in V..top(file, b) :
            header_in(meant, b, i) = IF s[i + 1] # NULL_HEADER THEN s[i + 1] ELSE NoHeader
  BY <1>1, ChainFacts
<1>3. s \in Path /\ tips[o] = last(s)
  BY <1>1, TipsNow DEF TipsAre
<1>4. read_header(o, n) = header_in(meant, b, n) /\ (check_header(o, h) <=> read_header(o, n) = h)
  BY <1>1 DEF read_header, check_header
<1>5. h # NoHeader /\ h # NULL_HEADER
  BY HeaderAssumption
<1>6. top(file, b) = Len(s) - 1 /\ Len(s) \in (V + 1)..Len(s)
  <2>1. top(file, b) \in Int
    BY <1>1 DEF top
  <2>2. QED
    BY <1>1, <1>2, <2>1
<1> HIDE DEF s, n, V, b
<1>7. Height[last(s)] = Len(s) - 1
  BY <1>3, <1>6, PathAt DEF V
<1>8. CASE n <= V
  <2>1. n \in 0..VBH
    BY <1>1, <1>8
  <2>2. read_header(o, n) = Trunk[n + 1]
    BY <2>1, TrunkHeld
  <2>3. QED
    BY <1>1, <1>4, <1>8, <2>2 DEF Has, n
<1>9. CASE n > V /\ n <= Len(s) - 1
  <2>1. n \in V..top(file, b) /\ n + 1 \in (V + 1)..Len(s) /\ n + 1 > V + 1 /\ (n + 1) - 1 = n
    BY <1>1, <1>2, <1>6, <1>9
  <2>2. link(s, n + 1) \in Header /\ link(s, n + 1) = s[n + 1]
    BY <1>3, <2>1, PathFacts DEF V
  <2>3. at(last(s), n) = link(s, n + 1)
    BY <1>3, <2>1, PathAt DEF V
  <2>4. s[n + 1] # NULL_HEADER
    BY <2>2, HeaderAssumption
  <2>5. read_header(o, n) = at(tips[o], n)
    BY <1>2, <1>3, <1>4, <2>1, <2>2, <2>3, <2>4
  <2>6. ~(n <= VBH) /\ n <= Height[tips[o]]
    BY <1>1, <1>3, <1>7, <1>9
  <2>7. QED
    BY <1>4, <2>5, <2>6 DEF Has, n
<1>10. CASE n > V /\ n > Len(s) - 1
  <2>1. n >= b /\ n \notin b..top(file, b)
    BY <1>1, <1>6, <1>10 DEF top
  <2>2. owner(b, n) = b
    BY <1>1, <2>1, OwnerFacts
  <2>3. read_header(o, n) = NoHeader
    BY <1>1, <1>4, <2>1, <2>2 DEF header_in
  <2>4. ~(n <= VBH) /\ ~(n <= Height[tips[o]])
    BY <1>1, <1>2, <1>3, <1>7, <1>10
  <2>5. QED
    BY <1>4, <1>5, <2>3, <2>4 DEF Has, n
<1>11. QED
  BY <1>1, <1>2, <1>8, <1>9, <1>10

\* A header stays on a chain that grows.
LEMMA HasStays ==
    ASSUME TipsAre, TipsAre', Grown, NEW o \in Live, o \in Live', NEW h \in Header, Has(o, h)
    PROVE  Has(o, h)'
<1> DEFINE t == tips[o]
           u == tips'[o]
<1>1. t \in Header /\ u \in Header
  BY DEF TipsAre
<1>2. Height[t] \in Nat /\ Height[u] \in Nat /\ Height[h] \in Nat
  BY <1>1, HeightFacts
<1>3. Height[t] <= Height[u] /\ at(u, Height[t]) = t
  BY DEF Grown
<1>4. CASE Height[h] <= VBH
  BY <1>4 DEF Has
<1>5. CASE ~(Height[h] <= VBH)
  <2>1. Height[h] <= Height[t] /\ at(t, Height[h]) = h
    BY <1>5 DEF Has
  <2>2. Height[t] \in 0..Height[u] /\ Height[h] \in 0..Height[t] /\ Height[h] <= Height[u]
    BY <1>2, <1>3, <2>1
  <2> HIDE DEF t, u
  <2>3. at(at(u, Height[t]), Height[h]) = at(u, Height[h])
    BY <1>1, <2>2, AtInside
  <2>4. at(u, Height[h]) = h
    BY <1>3, <2>1, <2>3
  <2>5. QED
    BY <1>5, <2>2, <2>4 DEF Has, u
<1>6. QED
  BY <1>4, <1>5

\* With two branches no third one wants the file of the fork.
LEMMA NothingReplaced ==
    ASSUME TwoBranches, StoreInv, PathInv, TrunkKept, Parted, NEW o \in Live, NEW h \in Header, replaceable(o, h)
    PROVE  FALSE
<1> DEFINE b == Height[h]
           p == blockchains[b]
           q == blockchains[ROOT]
<1>1. /\ swapping = NoSwap /\ b > VBH /\ b \in Base
      /\ ~check_header(p, h) /\ ~check_header(blockchains[parent[b]], h)
  BY DEF replaceable, VBH
<1>2. VBH \in Nat \ {0} /\ ROOT = 0 /\ b \in Nat /\ h # Genesis
  BY <1>1, MaxHeightFacts, HeightFacts DEF ROOT
<1>3. b # ROOT /\ Base = {ROOT, b} /\ parent[b] = ROOT /\ p \in Live /\ q \in Live /\ p # q
  BY <1>1, <1>2, StoreTypes DEF StoreInv, TypeOK, Live
<1> HIDE DEF p, q
<1>4. PICK f, r \in Header : /\ f # r /\ Height[f] = Height[r] /\ Height[f] \in Base \ {ROOT}
                             /\ Has(p, f) /\ Has(q, r)
  BY <1>3 DEF Parted
<1>5. Height[f] = b /\ Height[r] = b /\ f # Genesis /\ r # Genesis
  BY <1>2, <1>3, <1>4, HeightFacts
<1>6. check_header(p, f) /\ check_header(q, r)
  BY <1>1, <1>3, <1>4, <1>5, ReadHas
<1>7. h # f /\ h # r
  BY <1>1, <1>3, <1>6 DEF p, q
<1>8. QED
  BY <1>1, <1>4, <1>5, <1>7 DEF TwoBranches

\* Chains that grow, with the files they had, stay parted.
LEMMA PartedStays ==
    ASSUME TipsAre, TipsAre', Grown, Parted, Base' = Base, Live' = Live
    PROVE  Parted'
<1> SUFFICES ASSUME NEW o \in Live, NEW p \in Live, o # p
             PROVE  \E f, r \in Header : /\ f # r /\ Height[f] = Height[r] /\ Height[f] \in Base \ {ROOT}
                                         /\ Has(o, f)' /\ Has(p, r)'
  BY DEF Parted
<1>1. PICK f, r \in Header : /\ f # r /\ Height[f] = Height[r] /\ Height[f] \in Base \ {ROOT}
                             /\ Has(o, f) /\ Has(p, r)
  BY DEF Parted
<1>2. Has(o, f)' /\ Has(p, r)'
  BY <1>1, HasStays
<1>3. QED
  BY <1>1, <1>2

\* Writes and exchanges keep the set of files and that of objects.
LEMMA SameFiles ==
    ASSUME StoreInv,
           \/ \E o \in Live, h \in Header : save_header(o, h)
           \/ \E o \in Live, data \in Chunks : connect_chunk(o, data)
           \/ \E b, e \in 0..VERIFICATION_BLOCK_HEIGHT : connect_proof(b, e)
           \/ write_self \/ write_parent \/ swap_pointers
           \/ UNCHANGED vars
    PROVE  Base' = Base /\ Live' = Live
<1>1. \A b, d, k : DOMAIN written(b, d, k) = Base
  BY DEF written, Base
<1>2. ASSUME NEW b, NEW d, NEW k, Save(written(b, d, k), b) PROVE Base' = Base /\ blockchains' = blockchains
  BY <1>1, <1>2 DEF Save, Base
<1>3. CASE \E o \in Live, h \in Header : save_header(o, h)
  <2>1. PICK o \in Live, h \in Header : save_header(o, h)
    BY <1>3
  <2>2. Base' = Base /\ blockchains' = blockchains
    BY <1>2, <2>1 DEF save_header
  <2>3. QED
    BY <2>2 DEF Live
<1>4. CASE \E o \in Live, data \in Chunks : connect_chunk(o, data)
  <2>1. PICK o \in Live, data \in Chunks : connect_chunk(o, data)
    BY <1>4
  <2>2. Base' = Base /\ blockchains' = blockchains
    BY <1>2, <2>1 DEF connect_chunk
  <2>3. QED
    BY <2>2 DEF Live
<1>5. CASE \/ \E b, e \in 0..VERIFICATION_BLOCK_HEIGHT : connect_proof(b, e)
           \/ write_self \/ write_parent \/ UNCHANGED vars
  <2>1. Base' = Base /\ blockchains' = blockchains
    BY <1>1, <1>5 DEF connect_proof, write_self, write_parent, vars, Base
  <2>2. QED
    BY <2>1 DEF Live
<1>6. CASE swap_pointers
  <2> DEFINE b == swapping.base
  <2>1. b \in Base \ {ROOT} /\ Base = {ROOT, b} /\ parent[b] = ROOT /\ blockchains \in [Base -> Chain]
    BY <1>6, ExchangeFacts DEF swap_pointers, StoreInv, TypeOK
  <2>2. /\ blockchains' = [blockchains EXCEPT ![b] = blockchains[ROOT], ![ROOT] = blockchains[b]]
        /\ file' = file
    BY <1>6, <2>1 DEF swap_pointers
  <2> HIDE DEF b
  <2>3. Base' = Base /\ blockchains'[b] = blockchains[ROOT] /\ blockchains'[ROOT] = blockchains[b]
    BY <2>1, <2>2 DEF Base
  <2>4. QED
    BY <2>1, <2>3 DEF Live
<1>7. QED
  BY <1>3, <1>4, <1>5, <1>6

\* A new fork parts from the root's chain at its base.
LEMMA ForkParts ==
    ASSUME MaxForks <= 1, StoreInv, StoreInv', PathInv, TrunkKept, TrunkKept', NEW o \in Live, NEW h \in Header,
           fork(o, h)
    PROVE  Parted'
<1> DEFINE b == Height[h]
           d == <<h>>
           s == chain_of(meant, ROOT)
<1>1. /\ branches(o, h) /\ new_file(o, b, d) /\ swapping = NoSwap /\ swapping' = NoSwap
      /\ crashes' \in 0..MaxCrashes /\ b > VERIFICATION_BLOCK_HEIGHT /\ can_connect(o, h, FALSE)
      /\ height(o) >= b /\ ~check_header(o, h)
  BY DEF fork, branches, StoreInv, TypeOK
<1>2. d # <<>> /\ d \in {<<h>>, <<>>}
  OBVIOUS
<1> HIDE DEF d
<1>3. /\ PathInv' /\ o = blockchains[ROOT] /\ blockchains'[ROOT] = o /\ blockchains'[b] \in Chain \ Live
      /\ Base = {ROOT} /\ Base' = {ROOT, b}
      /\ tips' = [tips EXCEPT ![blockchains'[b]] = last(chain_of(meant', b))]
      /\ last(chain_of(meant', b)) = IF d = <<>> THEN Prev[h] ELSE h
  BY <1>1, <1>2, PathNewFile
<1> PICK new \in Chain \ Live : new = blockchains'[b]
  BY <1>3
<1>4. /\ TipsAre /\ TipsAre' /\ tips' = [tips EXCEPT ![new] = h] /\ new # o /\ new \in Chain
  BY <1>2, <1>3, TipsNow, TipsThen
<1>5. tips'[new] = h /\ tips'[o] = tips[o] /\ tips[o] \in Header /\ o \in Chain
  BY <1>4 DEF TipsAre
<1>6. Live' = {o, new}
  BY <1>3 DEF Live
<1>7. VERIFICATION_BLOCK_HEIGHT = VBH /\ VBH \in Nat \ {0} /\ b \in Nat /\ b > VBH /\ ROOT = 0 /\ h # Genesis
  BY <1>1, MaxHeightFacts, HeightFacts DEF VBH, ROOT
<1>8. base_height(o) = ROOT /\ meant = file /\ Height[tips[o]] >= b
  <2>1. base_height(o) = ROOT /\ meant = file
    BY <1>1, <1>3, BaseOf, MeantNow DEF StoreInv, MeantIs
  <2>2. top(file, ROOT) >= b
    BY <1>1, <2>1 DEF height
  <2>3. Len(s) = top(file, ROOT) + 1 /\ Len(s) \in Nat /\ Len(s) > VERIFICATION_BLOCK_HEIGHT
    BY <1>3, <2>1, ChainFacts
  <2>4. s \in Path /\ tips[o] = last(s)
    BY <1>3, <1>4 DEF TipsAre
  <2>5. top(file, ROOT) \in Int
    BY <1>3, StoreTypes DEF top, ROOT
  <2> HIDE DEF s
  <2>6. Len(s) \in (VERIFICATION_BLOCK_HEIGHT + 1)..Len(s)
    BY <1>7, <2>3
  <2>7. Height[last(s)] = Len(s) - 1
    BY <2>4, <2>6, PathAt
  <2>8. QED
    BY <1>7, <2>1, <2>2, <2>3, <2>4, <2>5, <2>7
<1> HIDE DEF b, s
<1>9. b \in 0..Height[tips[o]]
  BY <1>7, <1>8
<1>10. PICK r \in Header : r = at(tips[o], b) /\ Height[r] = b
  BY <1>5, <1>9, AtFacts
<1>11. Has(o, r) /\ Has(o, r)'
  BY <1>5, <1>7, <1>8, <1>10 DEF Has
<1>12. Has(new, h)'
  <2>1. at(h, Height[h]) = h
    BY AtFacts
  <2>2. QED
    BY <1>5, <1>7, <2>1 DEF Has, b
<1>13. h # r
  BY <1>1, <1>7, <1>11, ReadHas
<1>14. Height[h] = Height[r] /\ Height[h] \in Base' \ {ROOT}
  BY <1>3, <1>7, <1>10 DEF b
<1> SUFFICES ASSUME NEW x \in Live', NEW y \in Live', x # y
             PROVE  \E f, g \in Header : /\ f # g /\ Height[f] = Height[g] /\ Height[f] \in Base' \ {ROOT}
                                         /\ Has(x, f)' /\ Has(y, g)'
  BY DEF Parted
<1>15. CASE x = new /\ y = o
  BY <1>10, <1>11, <1>12, <1>13, <1>14, <1>15
<1>16. CASE x = o /\ y = new
  BY <1>10, <1>11, <1>12, <1>13, <1>14, <1>16
<1>17. QED
  BY <1>6, <1>15, <1>16

\* With two branches and no crash, chains only grow.
LEMMA ChainsGrow ==
    ASSUME MaxForks <= 1, ChunksLinked, TwoBranches, StoreInv, StoreInv', PathInv, TrunkKept, TrunkKept', Parted,
           crashes = 0, crashes' = 0, [Next]_vars
    PROVE  PathInv' /\ Grown /\ Parted'
<1>1. TipsAre
  BY TipsNow
<1>2. crash \/ (\E o \in Live, h \in Header : crash_in_fork(o, h) \/ crash_in_replace(o, h)) => FALSE
  BY DEF crash, crash_in_fork, crash_in_replace, read_blockchains
<1>3. (\E o \in Live, h \in Header : replace(o, h)) => FALSE
  BY NothingReplaced DEF replace
<1>4. CASE \E o \in Live, h \in Header : fork(o, h)
  <2>1. PICK o \in Live, h \in Header : fork(o, h)
    BY <1>4
  <2>2. PathInv' /\ Grown
    BY <2>1, PathFork
  <2>3. Parted'
    BY <2>1, ForkParts
  <2>4. QED
    BY <2>2, <2>3
<1>5. ASSUME PathInv', Grown, Base' = Base, Live' = Live PROVE PathInv' /\ Grown /\ Parted'
  BY <1>1, <1>5, TipsThen, PartedStays
<1>6. CASE \E o \in Live, h \in Header : save_header(o, h)
  <2>1. PathInv' /\ Grown
    BY <1>6, PathSaveHeader
  <2>2. QED
    BY <1>5, <1>6, <2>1, SameFiles
<1>7. CASE \E o \in Live, data \in Chunks : connect_chunk(o, data)
  <2>1. PathInv' /\ Grown
    BY <1>7, PathChunk
  <2>2. QED
    BY <1>5, <1>7, <2>1, SameFiles
<1>8. CASE \E b, e \in 0..VERIFICATION_BLOCK_HEIGHT : connect_proof(b, e)
  <2>1. PathInv' /\ Grown
    BY <1>8, PathProof
  <2>2. QED
    BY <1>5, <1>8, <2>1, SameFiles
<1>9. CASE write_self \/ write_parent \/ swap_pointers
  <2>1. PathInv' /\ Grown
    BY <1>9, PathWriteSelf, PathWriteParent, PathSwapPointers
  <2>2. QED
    BY <1>5, <1>9, <2>1, SameFiles
<1>10. CASE UNCHANGED vars
  <2>1. meant' = meant /\ Base' = Base /\ blockchains' = blockchains
    BY <1>10 DEF vars, meant, Base
  <2>2. \A c \in Base : chain_of(meant, c) \in Path
    BY <1>1 DEF TipsAre
  <2>3. PathInv' /\ Grown
    BY <2>1, <2>2, PathsStay
  <2>4. QED
    BY <1>5, <1>10, <2>3, SameFiles
<1>11. QED
  BY <1>2, <1>3, <1>4, <1>6, <1>7, <1>8, <1>9, <1>10 DEF Next

\* The search of s goes on from the bounds it has, or ends.
Steady(s) ==
    mode'[s] = "binary" =>
       /\ mode[s] = "binary" /\ on'[s] = on[s] /\ good'[s] = good[s]
       /\ \/ served'[s] = served[s]
          \/ Height[served'[s]] > Height[served[s]] /\ at(served'[s], Height[served[s]]) = served[s]

\* The search of s goes on from a header that a chain has.
Found(s) ==
    \E n \in Nat : /\ answers(s, n) /\ n <= Height[served[s]] /\ proven(s, n)
                   /\ on'[s] \in holders(at(served[s], n)) /\ good'[s] = n
                   /\ UNCHANGED <<storeVars, served>>

\* One interface leaves its search, and the others do nothing.
LEMMA SteadyLeaves ==
    ASSUME Shaped, NEW s \in Server, NEW m, m # "binary", mode' = [mode EXCEPT ![s] = m],
           on' = on \/ \E x : on' = [on EXCEPT ![s] = x],
           good' = good \/ \E x : good' = [good EXCEPT ![s] = x],
           served' = served \/ \E x : served' = [served EXCEPT ![s] = x],
           NEW u \in Server
    PROVE  Steady(u)
<1>1. mode'[s] = m
  BY DEF Shaped
<1>2. u # s => mode'[u] = mode[u] /\ on'[u] = on[u] /\ good'[u] = good[u] /\ served'[u] = served[u]
  BY DEF Shaped
<1>3. QED
  BY <1>1, <1>2 DEF Steady

\* A closed connection and a tip that is processed end the search.
LEMMA SteadyTip ==
    ASSUME Shaped, NEW s \in Server, NEW u \in Server,
           \/ connection_down(s)
           \/ /\ \E h, R : _process_latest_tip(s, h, R)
              /\ served' = served \/ \E x : served' = [served EXCEPT ![s] = x]
    PROVE  Steady(u)
<1>1. CASE connection_down(s)
  <2>1. /\ mode' = [mode EXCEPT ![s] = "down"] /\ on' = [on EXCEPT ![s] = NoChain]
        /\ good' = [good EXCEPT ![s] = 0] /\ served' = served
    BY <1>1 DEF connection_down, Go
  <2>2. QED
    BY <2>1, SteadyLeaves
<1>2. CASE /\ \E h, R : _process_latest_tip(s, h, R)
           /\ served' = served \/ \E x : served' = [served EXCEPT ![s] = x]
  <2>1. \E m \in {"default", "backward", "catch_up"} : mode' = [mode EXCEPT ![s] = m]
    BY <1>2, Zenon DEF _process_latest_tip, known_tip, next_tip, start_search, initial_catch_up,
       already_catching_up, Go
  <2>2. (on' = on \/ \E x : on' = [on EXCEPT ![s] = x]) /\ good' = good
    BY <1>2, Zenon DEF _process_latest_tip, known_tip, next_tip, start_search, initial_catch_up, already_catching_up
  <2>3. QED
    BY <1>2, <2>1, <2>2, SteadyLeaves
<1>3. QED
  BY <1>1, <1>2

\* The end of a chunk.
LEMMA SteadyMore ==
    ASSUME Shaped, NEW s \in Server, NEW u \in Server, NEW R, NEW e, NEW h,
           more(s, R, e, h) \/ Go(s, mode[s], R), UNCHANGED <<on, good, served>>
    PROVE  Steady(u)
<1>1. mode' = [mode EXCEPT ![s] = "default"] \/ mode' = [mode EXCEPT ![s] = mode[s]]
  BY DEF more, Go
<1>2. CASE mode' = [mode EXCEPT ![s] = "default"]
  BY <1>2, SteadyLeaves
<1>3. CASE mode' = [mode EXCEPT ![s] = mode[s]]
  BY <1>3 DEF Shaped, Steady
<1>4. QED
  BY <1>1, <1>2, <1>3

\* The answer to a request for a header.
LEMMA SteadyHeader ==
    ASSUME SyncInv, NEW s \in Server, NEW n \in Nat, on_header(s, n), NEW u \in Server
    PROVE  Steady(u) \/ Found(u)
<1> DEFINE g == at(served[s], n)
<1>1. Shaped
  BY SyncParts
<1>2. answers(s, n) /\ n <= Height[served[s]] /\ proven(s, n)
  BY DEF on_header
<1>3. ASSUME NEW p, mode' = [mode EXCEPT ![s] = "binary"], on' = [on EXCEPT ![s] = p], NEW k,
             good' = [good EXCEPT ![s] = k], UNCHANGED <<storeVars, served>>,
             (p \in holders(g) /\ k = n) \/ (mode[s] = "binary" /\ p = on[s] /\ k = good[s])
      PROVE  Steady(u) \/ Found(u)
  <2>1. CASE u # s
    BY <1>1, <1>3, <2>1 DEF Shaped, Steady
  <2>2. CASE u = s /\ p \in holders(g) /\ k = n
    <3>1. on'[s] = p /\ good'[s] = k
      BY <1>1, <1>3 DEF Shaped
    <3>2. Found(s)
      BY <1>2, <1>3, <2>2, <3>1, Zenon DEF Found
    <3>3. QED
      BY <2>2, <3>2
  <2>3. CASE u = s /\ mode[s] = "binary" /\ p = on[s] /\ k = good[s]
    BY <1>1, <1>3, <2>3 DEF Shaped, Steady
  <2>4. QED
    BY <1>3, <2>1, <2>2, <2>3
<1>4. CASE backward(s, n, g)
  <2>1. \/ \E p \in holders(g) : /\ on' = [on EXCEPT ![s] = p] /\ good' = [good EXCEPT ![s] = n]
                                 /\ mode' = [mode EXCEPT ![s] = "binary"] /\ UNCHANGED <<storeVars, served>>
        \/ mode' = [mode EXCEPT ![s] = "backward"] /\ UNCHANGED <<on, good, served>>
    BY <1>4, Zenon DEF backward, Go
  <2>2. CASE mode' = [mode EXCEPT ![s] = "backward"] /\ UNCHANGED <<on, good, served>>
    BY <1>1, <2>2, SteadyLeaves
  <2>3. CASE \E p \in holders(g) : /\ on' = [on EXCEPT ![s] = p] /\ good' = [good EXCEPT ![s] = n]
                                   /\ mode' = [mode EXCEPT ![s] = "binary"] /\ UNCHANGED <<storeVars, served>>
    <3>1. PICK p \in holders(g) : /\ on' = [on EXCEPT ![s] = p] /\ good' = [good EXCEPT ![s] = n]
                                  /\ mode' = [mode EXCEPT ![s] = "binary"] /\ UNCHANGED <<storeVars, served>>
      BY <2>3
    <3> HIDE DEF g
    <3>2. QED
      BY <1>3, <3>1, Zenon
  <2>4. QED
    BY <2>1, <2>2, <2>3
<1>5. CASE binary(s, n, g)
  <2> DEFINE G == good_after(s, n, g)
             B == IF holders(g) = {} THEN g ELSE bad[s]
  <2>1. PICK o \in IF holders(g) = {} THEN {on[s]} ELSE holders(g) :
          \/ connection_down(s)
          \/ /\ \/ narrow(s, n, G, B) /\ on' = [on EXCEPT ![s] = o]
                \/ /\ \/ joining(s, n, B) \/ reorg(s, n, g, B) \/ conflict(s, n, g, B)
                      \/ new_chain(s, n, o, G, B) \/ catching_up(s, n, o, G, B) \/ left_alone(s, n, o, G, B)
                   /\ \E p : on' = [on EXCEPT ![s] = p]
             /\ good' = [good EXCEPT ![s] = G]
             /\ UNCHANGED served
    BY <1>5, Zenon DEF binary
  <2>2. CASE connection_down(s)
    BY <1>1, <2>2, SteadyTip
  <2>3. CASE narrow(s, n, G, B) /\ on' = [on EXCEPT ![s] = o] /\ good' = [good EXCEPT ![s] = G] /\ UNCHANGED served
    <3>1. mode' = [mode EXCEPT ![s] = "binary"] /\ UNCHANGED <<storeVars, served>> /\ mode[s] = "binary"
      BY <1>5, <2>3 DEF narrow, Go, binary
    <3>2. o \in IF holders(g) = {} THEN {on[s]} ELSE holders(g)
      BY <2>1, Zenon
    <3> HIDE DEF g
    <3>3. (o \in holders(g) /\ G = n) \/ (o = on[s] /\ G = good[s])
      BY <3>2 DEF good_after
    <3> HIDE DEF G, B
    <3>4. (o \in holders(g) /\ G = n) \/ (mode[s] = "binary" /\ o = on[s] /\ G = good[s])
      BY <3>1, <3>3
    <3>5. QED
      BY <1>3, <2>3, <3>1, <3>4, Zenon
  <2>4. CASE /\ \/ joining(s, n, B) \/ reorg(s, n, g, B) \/ conflict(s, n, g, B)
                \/ new_chain(s, n, o, G, B) \/ catching_up(s, n, o, G, B) \/ left_alone(s, n, o, G, B)
             /\ \E p : on' = [on EXCEPT ![s] = p]
             /\ good' = [good EXCEPT ![s] = G] /\ UNCHANGED served
    <3>1. \E m \in {"default", "catch_up"} : mode' = [mode EXCEPT ![s] = m]
      BY <2>4, Zenon DEF joining, reorg, conflict, new_chain, catching_up, left_alone, Go
    <3> HIDE DEF G, B, g
    <3>2. QED
      BY <1>1, <2>4, <3>1, SteadyLeaves
  <2>5. QED
    BY <2>1, <2>2, <2>3, <2>4, Zenon
<1>6. CASE catches_up(s, n, g)
  <2>1. \E m \in {"catch_up", "default", "backward"} : mode' = [mode EXCEPT ![s] = m]
    BY <1>6, Zenon DEF catches_up, Go
  <2>2. UNCHANGED <<on, good, served>>
    BY <1>6, Zenon DEF catches_up
  <2>3. QED
    BY <1>1, <2>1, <2>2, SteadyLeaves
<1>7. QED
  BY <1>4, <1>5, <1>6 DEF on_header

\* A tip that is notified: a server that stays on its chain moves up on it.
LEMMA SteadyNotified ==
    ASSUME SyncInv, NEW s \in Server, NEW h \in Header, on_notify_header(s, h), NEW u \in Server \ Reorgs
    PROVE  Steady(u)
<1>1. Shaped /\ IfaceOK(s)
  BY SyncParts
<1>2. moves(s, h) /\ served' = [served EXCEPT ![s] = h]
  BY DEF on_notify_header, notified
<1>3. \/ mode' = [mode EXCEPT ![s] = "verification"] /\ UNCHANGED <<on, good>>
      \/ \E R : _process_latest_tip(s, h, R)
      \/ mode[s] \in Searching /\ UNCHANGED <<mode, on, good>>
  BY Zenon DEF on_notify_header, Go
<1>4. CASE mode' = [mode EXCEPT ![s] = "verification"] /\ UNCHANGED <<on, good>>
  BY <1>1, <1>2, <1>4, SteadyLeaves
<1>5. CASE \E R : _process_latest_tip(s, h, R)
  BY <1>1, <1>2, <1>5, SteadyTip
<1>6. CASE mode[s] \in Searching /\ UNCHANGED <<mode, on, good>>
  <2>1. CASE u # s
    BY <1>1, <1>2, <1>6, <2>1 DEF Shaped, Steady
  <2>2. CASE u = s
    <3>1. tip[s] # NoHeader
      BY <1>1, <1>6 DEF IfaceOK
    <3>2. Height[h] > Height[served[s]] /\ at(h, Height[served[s]]) = served[s]
      BY <1>2, <2>2, <3>1 DEF moves
    <3>3. served'[s] = h
      BY <1>1, <1>2 DEF Shaped
    <3>4. QED
      BY <1>6, <2>2, <3>2, <3>3 DEF Steady
  <2>3. QED
    BY <2>1, <2>2
<1>7. QED
  BY <1>3, <1>4, <1>5, <1>6

\* Every step leaves the search of a server that stays on its chain steady, or
\* has found a chain for it.
LEMMA SteadyNext ==
    ASSUME SyncInv, [SyncNext]_syncVars, NEW u \in Server \ Reorgs
    PROVE  Steady(u) \/ Found(u)
<1>1. Shaped
  BY SyncParts
<1>2. ASSUME NEW s \in Server, new_interface(s) \/ \E n : ignored(s, n) PROVE Steady(u)
  <2>1. \E m \in {"default", "verification"} : mode' = [mode EXCEPT ![s] = m]
    BY <1>2, Zenon DEF new_interface, ignored, Go
  <2>2. UNCHANGED <<on, good, served>>
    BY <1>2, Zenon DEF new_interface, ignored
  <2>3. QED
    BY <1>1, <2>1, <2>2, SteadyLeaves
<1>3. ASSUME NEW s \in Server, lost(s) \/ behind(s) \/ \E n : beyond_tip(s, n) \/ unproven(s, n) PROVE Steady(u)
  BY <1>1, <1>3, SteadyTip DEF lost, behind, beyond_tip, unproven
<1>4. ASSUME NEW s \in Server, NEW n, on_block_headers(s, n) PROVE Steady(u)
  <2>1. \/ connection_down(s)
        \/ \E R : Go(s, mode[s], R) /\ UNCHANGED <<on, good, served>>
        \/ \E R, e, h : more(s, R, e, h) /\ UNCHANGED <<on, good, served>>
    BY <1>4, Zenon DEF on_block_headers
  <2>2. QED
    BY <1>1, <2>1, SteadyTip, SteadyMore
<1>5. ASSUME NEW s \in Server, on_proof(s) PROVE Steady(u)
  <2>1. \/ connection_down(s)
        \/ (\E h, R : _process_latest_tip(s, h, R)) /\ served' = served
        \/ \E R, e, h : more(s, R, e, h) /\ UNCHANGED <<on, good, served>>
    BY <1>5, Zenon DEF on_proof
  <2>2. QED
    BY <1>1, <2>1, SteadyTip, SteadyMore
<1>6. ASSUME NEW s \in Server, NEW h \in Header, on_notify_header(s, h) PROVE Steady(u)
  BY <1>6, SteadyNotified
<1>7. CASE Swap \/ UNCHANGED syncVars
  <2>1. UNCHANGED <<mode, on, good, served>>
    BY <1>7 DEF Swap, syncVars, ifaceVars
  <2>2. QED
    BY <2>1 DEF Steady
<1>8. ASSUME NEW s \in Server, NEW n \in 0..MaxHeight, on_header(s, n) PROVE Steady(u) \/ Found(u)
  <2>1. n \in Nat
    BY MaxHeightFacts
  <2>2. QED
    BY <1>8, <2>1, SteadyHeader
<1>9. QED
  BY <1>2, <1>3, <1>4, <1>5, <1>6, <1>7, <1>8 DEF SyncNext, Answer

\* What a search has of the header it took for good.
Searches ==
    \A s \in Server : mode[s] = "binary" =>
       on[s] \in Live /\ on[s] # NoChain /\ good[s] \in Nat /\ good[s] > 0 /\ served[s] \in Header

LEMMA SearchNow == SyncInv => Searches
<1> SUFFICES ASSUME SyncInv, NEW s \in Server, mode[s] = "binary"
             PROVE  on[s] \in Live /\ on[s] # NoChain /\ good[s] \in Nat /\ good[s] > 0 /\ served[s] \in Header
  BY DEF Searches
<1>1. IfaceOK(s) /\ Shaped /\ good \in [Server -> 0..MaxHeight]
  BY SyncParts DEF SyncInv, SyncTypeOK
<1>2. good[s] \in Nat
  BY <1>1, MaxHeightFacts
<1>3. on[s] \in Live /\ on[s] # NoChain /\ good[s] > 0
  BY <1>1 DEF IfaceOK, IfaceInv
<1>4. QED
  BY <1>1, <1>2, <1>3 DEF Shaped

\* The same after a step.
LEMMA SearchThen == SyncInv' => Searches'
  BY SearchNow, PTL

\* A search that goes on keeps its bracket while chains grow.
LEMMA SteadyKept ==
    ASSUME SyncInv, SyncInv', TipsAre, TipsAre', Grown, NEW s \in Server, Bracketed(s), Steady(s)
    PROVE  Bracketed(s)'
<1> SUFFICES ASSUME mode'[s] = "binary"
             PROVE  good'[s] <= Height[served'[s]] /\ Has(on[s], at(served[s], good[s]))'
  BY DEF Bracketed
<1> DEFINE G == good[s]
           h == served[s]
           u == served'[s]
<1>1. mode[s] = "binary" /\ on'[s] = on[s] /\ good'[s] = G /\ (u = h \/ (Height[u] > Height[h] /\ at(u, Height[h]) = h))
  BY DEF Steady
<1>2. on[s] \in Live /\ on[s] \in Live' /\ G \in Nat /\ h \in Header /\ u \in Header
  BY <1>1, SearchNow, SearchThen DEF Searches
<1>3. G <= Height[h] /\ Has(on[s], at(h, G))
  BY <1>1 DEF Bracketed
<1>4. Height[h] \in Nat /\ Height[u] \in Nat
  BY <1>2, HeightFacts
<1>5. PICK x \in Header : x = at(h, G)
  BY <1>2, <1>3, <1>4, AtFacts
<1> HIDE DEF G, h, u
<1>6. at(u, G) = x /\ G <= Height[u]
  <2>1. CASE u = h
    BY <1>3, <1>5, <2>1
  <2>2. CASE Height[u] > Height[h] /\ at(u, Height[h]) = h
    <3>1. Height[h] \in 0..Height[u] /\ G \in 0..Height[h] /\ G <= Height[u]
      BY <1>2, <1>3, <1>4, <2>2
    <3>2. QED
      BY <1>2, <1>5, <2>2, <3>1, AtInside
  <2>3. QED
    BY <1>1, <2>1, <2>2
<1>7. PICK o \in Live : o = on[s]
  BY <1>2
<1>8. Has(o, x)'
  BY <1>2, <1>3, <1>5, <1>7, HasStays
<1>9. QED
  BY <1>1, <1>6, <1>7, <1>8 DEF Has, u

\* A search that finds a chain has its bracket there.
LEMMA FoundKept ==
    ASSUME SyncInv, PathInv, TipsAre', Grown, NEW s \in Server, Found(s)
    PROVE  Bracketed(s)'
<1> PICK n \in Nat : /\ answers(s, n) /\ n <= Height[served[s]] /\ proven(s, n)
                     /\ on'[s] \in holders(at(served[s], n)) /\ good'[s] = n
                     /\ UNCHANGED <<storeVars, served>>
  BY DEF Found
<1>1. StoreInv /\ TrunkKept /\ TipsAre /\ Shaped
  BY SyncParts, TipsNow
<1>2. PICK g \in Header \ {Genesis} : g = at(served[s], n) /\ swapping = NoSwap
  BY AnswerFacts
<1>3. PICK o \in Live : o = on'[s] /\ check_header(o, g)
  BY <1>1, <1>2, HolderFacts
<1>4. Has(o, g) /\ o \in Live'
  BY <1>1, <1>2, <1>3, ReadHas DEF Live, Base, storeVars, vars
<1>5. Has(o, g)'
  BY <1>1, <1>4, HasStays
<1>6. good'[s] <= Height[served'[s]] /\ Has(on[s], at(served[s], good[s]))'
  BY <1>2, <1>3, <1>5 DEF Has
<1>7. QED
  BY <1>6 DEF Bracketed

\* The inductive step.
LEMMA BracketStep ==
    ASSUME MaxForks <= 1, ChunksLinked, TwoBranches, SyncInv, PathInv, BracketInv, [SyncNext]_syncVars
    PROVE  SyncInv' /\ PathInv' /\ BracketInv'
<1>1. SyncInv' /\ [Next]_vars
  BY SyncNextStep DEF storeVars
<1>2. StoreInv /\ crashes = 0 /\ TrunkKept /\ Parted
  BY SyncParts DEF BracketInv
<1>3. StoreInv' /\ crashes' = 0 /\ TrunkKept'
  BY <1>1 DEF SyncInv, TrunkKept
<1>4. PathInv' /\ Grown /\ Parted'
  BY <1>1, <1>2, <1>3, ChainsGrow
<1>5. TipsAre /\ TipsAre'
  BY <1>2, <1>3, <1>4, TipsNow, TipsThen
<1>6. ASSUME NEW s \in Server \ Reorgs PROVE Bracketed(s)'
  <2>1. Bracketed(s)
    BY DEF BracketInv
  <2>2. Steady(s) \/ Found(s)
    BY SteadyNext
  <2>3. QED
    BY <1>1, <1>4, <1>5, <2>1, <2>2, SteadyKept, FoundKept
<1>7. BracketInv'
  BY <1>4, <1>6 DEF BracketInv
<1>8. QED
  BY <1>1, <1>4, <1>7

\* One chain, and no search, at the start.
LEMMA BracketFirst == SyncInit => BracketInv
<1> SUFFICES ASSUME SyncInit PROVE BracketInv
  OBVIOUS
<1>1. blockchains = [b \in {ROOT} |-> CHOOSE c \in Chain : TRUE] /\ file = [b \in {ROOT} |-> Trunk]
      /\ mode = [s \in Server |-> "down"]
  BY DEF SyncInit
<1>2. \A o, p \in Live : o = p
  BY <1>1 DEF Live, Base
<1>3. Parted
  BY <1>2 DEF Parted
<1>4. \A s \in Server \ Reorgs : Bracketed(s)
  BY <1>1 DEF Bracketed
<1>5. QED
  BY <1>3, <1>4 DEF BracketInv

\* The header a search took for good is read from the chain it stands on.
LEMMA BracketReads == SyncInv /\ PathInv /\ BracketInv => BracketHeld
<1> SUFFICES ASSUME SyncInv, PathInv, BracketInv, swapping = NoSwap, NEW s \in Server \ Reorgs, mode[s] = "binary"
             PROVE  on[s] # NoChain /\ read_header(on[s], good[s]) = at(served[s], good[s])
  BY DEF BracketHeld
<1> DEFINE n == good[s]
<1>1. on[s] \in Live /\ on[s] # NoChain /\ n \in Nat /\ n > 0 /\ served[s] \in Header
  BY SearchNow DEF Searches
<1>2. n <= Height[served[s]] /\ Has(on[s], at(served[s], n))
  BY DEF BracketInv, Bracketed
<1>3. n \in 0..Height[served[s]]
  BY <1>1, <1>2, HeightFacts
<1> HIDE DEF n
<1>4. PICK g \in Header : g = at(served[s], n) /\ Height[g] = n
  BY <1>1, <1>3, AtFacts
<1>5. g \in Header \ {Genesis}
  BY <1>1, <1>4, HeightFacts
<1>6. check_header(on[s], g)
  <2>1. StoreInv /\ TrunkKept
    BY SyncParts
  <2>2. QED
    BY <1>1, <1>2, <1>4, <1>5, <2>1, ReadHas
<1>7. read_header(on[s], n) = g
  BY <1>4, <1>5, <1>6 DEF check_header
<1>8. QED
  BY <1>1, <1>4, <1>7 DEF n

\* While two branches compete, a search for the fork point keeps its lower bound:
\* whatever the other servers answer, and whichever files are exchanged between two
\* answers, the chain in interface.blockchain has the server's own header at the
\* height interface.good (on_header, binary mode).  A third branch breaks it: its
\* search writes over the file of the fork.
THEOREM BracketsHeld ==
    ASSUME MaxForks <= 1, ChunksLinked, TwoBranches
    PROVE  SyncSpec => []BracketHeld
<1>1. SyncInit => SyncInv /\ PathInv /\ BracketInv
  BY SyncFirst, SyncPathInit, BracketFirst
<1>2. SyncInv /\ PathInv /\ BracketInv /\ [SyncNext]_syncVars => SyncInv' /\ PathInv' /\ BracketInv'
  BY BracketStep
<1>3. QED
  BY <1>1, <1>2, BracketReads, PTL DEF SyncSpec
=============================================================================
