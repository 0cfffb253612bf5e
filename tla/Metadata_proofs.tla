--------------------------- MODULE Metadata_proofs ---------------------------
(***************************************************************************)
(* Proofs about Metadata, for any number of peers, honest or not, any      *)
(* sizes they claim and any number of wrong chunks and failures.           *)
(***************************************************************************)
EXTENDS Metadata, TLAPS

Holding == {"upgrade", "install", "reset"}

(* Whoever examines an assembly holds one, of all the chunks, before there  *)
(* is storage; no chunk comes before a size.                                *)
HoldInv ==
  /\ \A s \in Sessions : (at[s] \in Holding) = (assembly[s] # None)
  /\ \A s \in Sessions : at[s] = "install" => assembly[s] = "right"
  /\ \A s \in Sessions : assembly[s] # None => storage = None /\ metaSize # 0
  /\ metaSize = 0 => chunks = NoChunks

AssemblyInv == TypeOK /\ HoldInv /\ AssemblyIsChunks

(* After the installation, the state can only err while the session that    *)
(* installed has not looked at the disk.                                    *)
SettleInv ==
  /\ \A s \in Sessions : at[s] = "settle" => storage # None
  /\ storage # None /\ state = "seeding" => complete
  /\ storage # None /\ state = "downloading" /\ complete => \E s \in Sessions : at[s] = "settle"

-----------------------------------------------------------------------------
LEMMA NChunksTyped == ASSUME NEW n \in Nat PROVE NChunks(n) \in Int
BY MetadataAssumption DEF NChunks

LEMMA SizesTyped == \A size \in Sizes \union {0} : size \in Nat /\ NChunks(size) \in Int
BY MetadataAssumption, NChunksTyped

LEMMA IndexesTyped ==
  /\ \A size \in Sizes : 0 .. NChunks(size) - 1 \subseteq Indexes
  /\ \A i \in Indexes : i \in Nat
BY SizesTyped DEF Indexes

(* A chunk that an honest peer serves is a chunk. *)
LEMMA ServedTyped ==
  ASSUME NEW i \in Indexes, i * ChunkSize < TrueSize
  PROVE  [len |-> ChunkLen(TrueSize, i), right |-> TRUE] \in Chunk
<1>1. i * ChunkSize \in Int
  BY IndexesTyped, MetadataAssumption
<1>2. TrueSize \in Nat
  BY MetadataAssumption
<1>3. ChunkLen(TrueSize, i) \in 1 .. ChunkSize
  BY <1>1, <1>2, MetadataAssumption DEF ChunkLen
<1> QED
  BY <1>3 DEF Chunk

LEMMA RequestTyped ==
  ASSUME TypeOK, NEW s \in Sessions, RequestMeta(s)
  PROVE  asked' \in [Sessions -> SUBSET Indexes]
<1>1. CASE storage # None \/ ~knows[s] \/ metaSize = 0 \/ metaSize > MaxMetaSize
  BY <1>1 DEF TypeOK, RequestMeta
<1>2. CASE ~(storage # None \/ ~knows[s] \/ metaSize = 0 \/ metaSize > MaxMetaSize)
  <2>1. 0 .. NChunks(metaSize) - 1 \subseteq Indexes
    BY <1>2, IndexesTyped DEF TypeOK
  <2>2. PICK expired, sent :
          sent \subseteq Indexes /\ asked' = [asked EXCEPT ![s] = (@ \ expired) \union sent]
    BY <1>2, <2>1 DEF RequestMeta, Missing
  <2> QED
    BY <2>2 DEF TypeOK
<1> QED
  BY <1>1, <1>2

LEMMA TypeInit == Init => TypeOK
BY MetadataAssumption DEF Init, TypeOK, Steps, NoChunks

(* Any message of ut_metadata leaves the types alone. *)
LEMMA DataTyped ==
  ASSUME TypeOK, NEW s \in Sessions, NEW i \in Indexes, NEW chunk \in Chunk,
         RecvData(s, i, chunk)
  PROVE  TypeOK'
<1>1. asked' \in [Sessions -> SUBSET Indexes]
  BY DEF RecvData, TypeOK
<1>2. CASE DropData(s, i, chunk)
  BY <1>1, <1>2 DEF RecvData, DropData, Goto, TypeOK, Steps, userVars
<1>3. CASE StoreData(s, i, chunk)
  <2>1. Assembled(chunks') \in {None, "right", "wrong"}
    BY DEF Assembled
  <2>2. assembly' \in [Sessions -> {None, "right", "wrong"}]
    BY <1>3, <2>1 DEF StoreData, TypeOK
  <2>3. at' \in [Sessions -> Steps]
    BY <1>3 DEF StoreData, Goto, TypeOK, Steps
  <2>4. DOMAIN chunks' \subseteq Indexes /\ \A j \in DOMAIN chunks' : chunks'[j] \in Chunk
    BY <1>3 DEF StoreData, With, TypeOK
  <2> QED
    BY <1>1, <2>2, <2>3, <2>4 DEF RecvData, TypeOK, userVars
<1> QED
  BY <1>2, <1>3 DEF RecvData

LEMMA TypeStep ==
  ASSUME TypeOK, [Next]_vars
  PROVE  TypeOK'
<1> USE DEF torrentVars, userVars, loopVars
<1>1. ASSUME NEW s \in Sessions, SessionNext(s)
      PROVE  TypeOK'
  <2>1. CASE Open(s)
    BY <2>1 DEF Open, Goto, TypeOK, Steps
  <2>2. CASE TopRead(s)
    BY <2>2 DEF TopRead, Goto, TypeOK, Steps
  <2>3. CASE TopPoll(s)
    BY <2>3 DEF TopPoll, Goto, TypeOK, Steps
  <2>4. CASE Poll(s)
    BY <2>4, RequestTyped DEF Poll, Goto, TypeOK, Steps
  <2>5. CASE Ask(s)
    BY <2>5, RequestTyped DEF Ask, Goto, TypeOK, Steps
  <2>6. CASE \E size \in Claims(s) : RecvHandshake(s, size)
    BY <2>6, MetadataAssumption DEF RecvHandshake, Claims, Goto, TypeOK, Steps
  <2>7. CASE \E size \in Claims(s) : RecvSize(s, size)
    BY <2>7, MetadataAssumption DEF RecvSize, Claims, Goto, TypeOK, Steps
  <2>8. CASE \E i \in Indexes : Served(s, i)
    BY <2>8, ServedTyped, DataTyped DEF Served
  <2>9. CASE \E i \in Indexes : RecvReject(s, i)
    BY <2>9 DEF RecvReject, Goto, TypeOK, Steps
  <2>10. CASE \E i \in Indexes, chunk \in Chunk : Forged(s, i, chunk)
    BY <2>10, DataTyped DEF Forged
  <2>11. CASE RecvOther(s)
    BY <2>11 DEF RecvOther, Goto, TypeOK, Steps
  <2>12. CASE Upgrade(s)
    BY <2>12 DEF Upgrade, Goto, TypeOK, Steps
  <2>13. CASE Install(s)
    BY <2>13 DEF Install, Goto, TypeOK, Steps
  <2>14. CASE Settle(s)
    BY <2>14 DEF Settle, Goto, TypeOK, Steps
  <2>15. CASE Reset(s)
    BY <2>15 DEF Reset, NoChunks, Goto, TypeOK, Steps
  <2>16. CASE Close(s)
    BY <2>16 DEF Close, Goto, TypeOK, Steps
  <2> QED
    BY <1>1, <2>1, <2>2, <2>3, <2>4, <2>5, <2>6, <2>7, <2>8, <2>9, <2>10, <2>11, <2>12, <2>13,
       <2>14, <2>15, <2>16 DEF SessionNext
<1>2. CASE Pause \/ Resume \/ Remove
  BY <1>2 DEF Pause, Resume, Remove, TypeOK
<1>3. CASE UNCHANGED vars
  BY <1>3 DEF vars, TypeOK
<1> QED
  BY <1>1, <1>2, <1>3 DEF Next

-----------------------------------------------------------------------------
LEMMA HoldInit == Init => HoldInv /\ AssemblyIsChunks
BY DEF Init, HoldInv, AssemblyIsChunks, Holding, NoChunks, None

(* A step that takes no chunk and no assembly, installs nothing and, if a   *)
(* size was claimed, keeps it.                                              *)
LEMMA QuietKeeps ==
  ASSUME AssemblyInv, UNCHANGED <<chunks, storage, assembly>>,
         metaSize' = metaSize \/ metaSize = 0,
         \A r \in Sessions : (at'[r] \in Holding) = (at[r] \in Holding),
         \A r \in Sessions : at'[r] = "install" => at[r] = "install" \/ assembly[r] = "right"
  PROVE  (HoldInv /\ AssemblyIsChunks)'
<1>1. HoldInv'
  BY DEF AssemblyInv, HoldInv
<1>2. CASE metaSize' = metaSize
  BY <1>1, <1>2 DEF AssemblyInv, AssemblyIsChunks, Assembled, Fits
<1>3. CASE metaSize = 0
  <2>1. chunks = NoChunks /\ \A r \in Sessions : assembly[r] = None
    BY <1>3 DEF AssemblyInv, HoldInv
  <2> QED
    BY <1>1, <2>1 DEF AssemblyIsChunks, NoChunks
<1> QED
  BY <1>1, <1>2, <1>3

(* While somebody holds an assembly, all chunks are here: no other fits.    *)
LEMMA NoneMissing ==
  ASSUME AssemblyInv, NEW s \in Sessions, assembly[s] # None, NEW i \in Indexes, i \notin DOMAIN chunks,
         NEW chunk \in Chunk
  PROVE  ~Fits(i, chunk)
<1>1. Assembled(chunks) # None
  BY DEF AssemblyInv, AssemblyIsChunks
<1>2. DOMAIN chunks = 0 .. NChunks(metaSize) - 1
  BY <1>1 DEF Assembled
<1>3. NChunks(metaSize) \in Int /\ i \in Nat
  BY SizesTyped, IndexesTyped DEF AssemblyInv, TypeOK
<1> QED
  BY <1>2, <1>3 DEF Fits

LEMMA StoreKeeps ==
  ASSUME AssemblyInv, NEW s \in Sessions, NEW i \in Indexes, NEW chunk \in Chunk,
         at[s] \in {"read", "data"}, StoreData(s, i, chunk), UNCHANGED <<metaSize, storage>>
  PROVE  (HoldInv /\ AssemblyIsChunks)'
<1>1. \A r \in Sessions : assembly[r] = None /\ at[r] \notin Holding
  <2>1. \A r \in Sessions : assembly[r] = None
    BY NoneMissing DEF StoreData
  <2> QED
    BY <2>1 DEF AssemblyInv, HoldInv
<1>2. /\ assembly' = [assembly EXCEPT ![s] = Assembled(chunks)']
      /\ at' = [at EXCEPT ![s] = IF Assembled(chunks)' = None THEN "ask" ELSE "upgrade"]
      /\ assembly \in [Sessions -> {None, "right", "wrong"}] /\ at \in [Sessions -> Steps]
  BY DEF StoreData, Goto, Assembled, AssemblyInv, TypeOK
<1>3. \A j \in DOMAIN chunks' : Fits(j, chunks'[j])
  BY DEF StoreData, With, AssemblyInv, AssemblyIsChunks
<1>4. AssemblyIsChunks'
  BY <1>1, <1>2, <1>3 DEF AssemblyIsChunks, Fits
<1>5. HoldInv'
  BY <1>1, <1>2 DEF HoldInv, Holding, StoreData
<1> QED
  BY <1>4, <1>5

LEMMA DataKeeps ==
  ASSUME AssemblyInv, NEW s \in Sessions, NEW i \in Indexes, NEW chunk \in Chunk,
         RecvData(s, i, chunk)
  PROVE  (HoldInv /\ AssemblyIsChunks)'
<1>1. CASE DropData(s, i, chunk)
  BY <1>1, QuietKeeps DEF RecvData, DropData, Goto, AssemblyInv, TypeOK, Holding
<1>2. CASE StoreData(s, i, chunk)
  BY <1>2, StoreKeeps DEF RecvData
<1> QED
  BY <1>1, <1>2 DEF RecvData

LEMMA HoldStep ==
  ASSUME AssemblyInv, [Next]_vars
  PROVE  (HoldInv /\ AssemblyIsChunks)'
<1> USE DEF torrentVars, userVars, loopVars
<1>1. ASSUME NEW s \in Sessions, SessionNext(s)
      PROVE  (HoldInv /\ AssemblyIsChunks)'
  <2>0. at \in [Sessions -> Steps] /\ assembly \in [Sessions -> {None, "right", "wrong"}]
    BY DEF AssemblyInv, TypeOK
  <2>1. CASE Open(s) \/ TopRead(s) \/ TopPoll(s) \/ Poll(s) \/ Ask(s)
    BY <2>0, <2>1, QuietKeeps DEF Open, TopRead, TopPoll, Poll, Ask, Goto, Holding
  <2>2. CASE \E size \in Claims(s) : RecvHandshake(s, size) \/ RecvSize(s, size)
    BY <2>0, <2>2, QuietKeeps DEF RecvHandshake, RecvSize, Goto, Holding
  <2>3. CASE \E i \in Indexes : Served(s, i)
    BY <2>3, ServedTyped, DataKeeps DEF Served
  <2>4. CASE \E i \in Indexes : RecvReject(s, i)
    BY <2>0, <2>4, QuietKeeps DEF RecvReject, Goto, Holding
  <2>5. CASE \E i \in Indexes, chunk \in Chunk : Forged(s, i, chunk)
    BY <2>5, DataKeeps DEF Forged
  <2>6. CASE RecvOther(s) \/ Settle(s) \/ Close(s)
    BY <2>0, <2>6, QuietKeeps DEF RecvOther, Settle, Close, Goto, Holding
  <2>7. CASE Upgrade(s)
    BY <2>0, <2>7, QuietKeeps DEF Upgrade, Goto, Holding
  <2>8. CASE Install(s)
    <3>1. assembly[s] # None /\ \A r \in Sessions \ {s} : assembly[r] = None /\ at[r] \notin Holding
      BY <2>8 DEF Install, AssemblyInv, HoldInv, AssemblyIsChunks, Holding
    <3>2. \A r \in Sessions : assembly'[r] = None /\ at'[r] \notin Holding
      BY <2>0, <2>8, <3>1 DEF Install, Goto, Holding
    <3>3. HoldInv'
      BY <2>8, <3>2 DEF Install, HoldInv, AssemblyInv, Holding
    <3>4. AssemblyIsChunks'
      BY <2>8, <3>2 DEF Install, AssemblyInv, AssemblyIsChunks, Fits
    <3> QED
      BY <3>3, <3>4
  <2>9. CASE Reset(s)
    <3>1. assembly[s] # None /\ \A r \in Sessions \ {s} : assembly[r] = None /\ at[r] \notin Holding
      BY <2>9 DEF Reset, AssemblyInv, HoldInv, AssemblyIsChunks, Holding
    <3>2. \A r \in Sessions : assembly'[r] = None /\ at'[r] \notin Holding
      BY <2>0, <2>9, <3>1 DEF Reset, Goto, Holding
    <3> QED
      BY <2>9, <3>2 DEF Reset, HoldInv, AssemblyIsChunks, NoChunks, Holding
  <2> QED
    BY <1>1, <2>1, <2>2, <2>3, <2>4, <2>5, <2>6, <2>7, <2>8, <2>9 DEF SessionNext
<1>2. CASE Pause \/ Resume \/ Remove
  BY <1>2, QuietKeeps DEF Pause, Resume, Remove
<1>3. CASE UNCHANGED vars
  BY <1>3, QuietKeeps DEF vars
<1> QED
  BY <1>1, <1>2, <1>3 DEF Next

LEMMA AssemblyInvHolds == Spec => []AssemblyInv
<1>1. Init => AssemblyInv
  BY TypeInit, HoldInit DEF AssemblyInv
<1>2. AssemblyInv /\ [Next]_vars => AssemblyInv'
  BY TypeStep, HoldStep DEF AssemblyInv
<1> QED
  BY <1>1, <1>2, PTL DEF Spec

(* Every variable of Metadata keeps its type. *)
THEOREM MetadataTypeCorrect == Spec => []TypeOK
BY AssemblyInvHolds, PTL DEF AssemblyInv

(* What upgradeMagnet examines outside the lock is what is stored, and one  *)
(* session at a time examines (recvMetaPiece, extend.go).                   *)
THEOREM AssemblyExaminedAlone == Spec => []AssemblyIsChunks
BY AssemblyInvHolds, PTL DEF AssemblyInv

-----------------------------------------------------------------------------
LEMMA SettleInit == Init => SettleInv
BY DEF Init, SettleInv, None

(* A step that installs nothing, settles nothing and leaves the state.      *)
LEMMA QuietSettles ==
  ASSUME SettleInv, UNCHANGED <<storage, state, complete>>,
         \A r \in Sessions : (at'[r] = "settle") = (at[r] = "settle")
  PROVE  SettleInv'
BY DEF SettleInv

LEMMA DataSettles ==
  ASSUME AssemblyInv, SettleInv, NEW s \in Sessions, NEW i \in Indexes, NEW chunk \in Chunk,
         RecvData(s, i, chunk)
  PROVE  SettleInv'
BY QuietSettles DEF RecvData, DropData, StoreData, userVars, Goto, AssemblyInv, TypeOK

LEMMA SettleStep ==
  ASSUME AssemblyInv, SettleInv, [Next]_vars
  PROVE  SettleInv'
<1> USE DEF torrentVars, userVars, loopVars
<1>0. at \in [Sessions -> Steps] /\ complete \in BOOLEAN
  BY DEF AssemblyInv, TypeOK
<1>1. ASSUME NEW s \in Sessions, SessionNext(s)
      PROVE  SettleInv'
  <2>1. CASE Open(s) \/ TopRead(s) \/ TopPoll(s) \/ Poll(s) \/ Ask(s)
    BY <1>0, <2>1, QuietSettles DEF Open, TopRead, TopPoll, Poll, Ask, Goto
  <2>2. CASE \E size \in Claims(s) : RecvHandshake(s, size) \/ RecvSize(s, size)
    BY <1>0, <2>2, QuietSettles DEF RecvHandshake, RecvSize, Goto
  <2>3. CASE \E i \in Indexes : Served(s, i)
    BY <2>3, ServedTyped, DataSettles DEF Served
  <2>4. CASE \E i \in Indexes : RecvReject(s, i)
    BY <1>0, <2>4, QuietSettles DEF RecvReject, Goto
  <2>5. CASE \E i \in Indexes, chunk \in Chunk : Forged(s, i, chunk)
    BY <2>5, DataSettles DEF Forged
  <2>6. CASE RecvOther(s) \/ Close(s) \/ Upgrade(s) \/ Reset(s)
    BY <1>0, <2>6, QuietSettles DEF RecvOther, Close, Upgrade, Reset, Goto
  <2>7. CASE Install(s)
    <3>1. storage = None /\ storage' = "right"
      BY <2>7 DEF Install, AssemblyInv, HoldInv, Holding, None
    <3>2. state' = "downloading" /\ at' = [at EXCEPT ![s] = "settle"]
      BY <2>7, <3>1 DEF Install, Goto
    <3> QED
      BY <1>0, <3>1, <3>2 DEF SettleInv, None
  <2>8. CASE Settle(s)
    <3>1. storage' # None /\ complete' = complete /\ state' = IF complete THEN "seeding" ELSE state
      BY <2>8 DEF Settle, SettleInv
    <3>2. \A r \in Sessions : at'[r] = "settle" => at[r] = "settle"
      BY <1>0, <2>8 DEF Settle, Goto
    <3> QED
      BY <2>8, <3>1, <3>2 DEF Settle, SettleInv
  <2> QED
    BY <1>1, <2>1, <2>2, <2>3, <2>4, <2>5, <2>6, <2>7, <2>8 DEF SessionNext
<1>2. CASE Pause \/ Resume \/ Remove
  BY <1>2 DEF Pause, Resume, Remove, SettleInv
<1>3. CASE UNCHANGED vars
  BY <1>3, QuietSettles DEF vars
<1> QED
  BY <1>1, <1>2, <1>3 DEF Next

(* Once the metadata is here the state tells what is on the disk, whatever  *)
(* the user asked for before and between the two halves of upgradeMagnet.   *)
THEOREM StateMatchesDisk == Spec => []StateTellsDisk
<1>1. Init => SettleInv
  BY SettleInit
<1>2. AssemblyInv /\ SettleInv /\ [Next]_vars => SettleInv'
  BY SettleStep
<1>3. SettleInv => StateTellsDisk
  BY DEF SettleInv, StateTellsDisk
<1> QED
  BY <1>1, <1>2, <1>3, AssemblyInvHolds, PTL DEF Spec

-----------------------------------------------------------------------------
(* The refinement.  A claimed size is learned, a stored chunk is gathered,  *)
(* a reset discards all, an installation writes; all else is a stutter.     *)
LEMMA RegisterInit == Init => Register!Init
BY DEF Init, Register!Init, NoChunks, None

LEMMA RegisterSize ==
  ASSUME AssemblyInv, UNCHANGED <<chunks, storage>>, NEW size \in Sizes \union {0},
         metaSize' = IF metaSize = 0 THEN size ELSE metaSize
  PROVE  [Register!Next]_(Register!vars)
<1>1. CASE metaSize = 0 /\ size # 0
  BY <1>1 DEF Register!Next, Register!Learn
<1>2. CASE metaSize # 0 \/ size = 0
  BY <1>2 DEF Register!vars
<1> QED
  BY <1>1, <1>2

LEMMA RegisterData ==
  ASSUME AssemblyInv, NEW s \in Sessions, NEW i \in Indexes, NEW chunk \in Chunk,
         RecvData(s, i, chunk)
  PROVE  [Register!Next]_(Register!vars)
<1>1. CASE DropData(s, i, chunk)
  BY <1>1 DEF RecvData, DropData, Register!vars
<1>2. CASE StoreData(s, i, chunk)
  <2>1. i \in Nat /\ NChunks(metaSize) \in Int
    BY IndexesTyped, SizesTyped DEF AssemblyInv, TypeOK
  <2>2. i \in (0 .. NChunks(metaSize) - 1) \ DOMAIN chunks
    BY <1>2, <2>1 DEF StoreData, Fits
  <2>3. DOMAIN chunks' = DOMAIN chunks \union {i}
    BY <1>2 DEF StoreData, With
  <2> QED
    BY <1>2, <2>2, <2>3 DEF StoreData, RecvData, Register!Next, Register!Gather, Register!All, None
<1> QED
  BY <1>1, <1>2 DEF RecvData

LEMMA RegisterStep ==
  ASSUME AssemblyInv, [Next]_vars
  PROVE  [Register!Next]_(Register!vars)
<1> USE DEF torrentVars, userVars, loopVars
<1>1. ASSUME NEW s \in Sessions, SessionNext(s)
      PROVE  [Register!Next]_(Register!vars)
  <2>1. CASE Open(s) \/ TopRead(s) \/ TopPoll(s) \/ Poll(s) \/ Ask(s)
    BY <2>1 DEF Open, TopRead, TopPoll, Poll, Ask, Register!vars
  <2>2. CASE \E size \in Claims(s) : RecvHandshake(s, size) \/ RecvSize(s, size)
    BY <2>2, RegisterSize, MetadataAssumption DEF RecvHandshake, RecvSize, Claims
  <2>3. CASE \E i \in Indexes : Served(s, i)
    BY <2>3, ServedTyped, RegisterData DEF Served
  <2>4. CASE \E i \in Indexes : RecvReject(s, i)
    BY <2>4 DEF RecvReject, Register!vars
  <2>5. CASE \E i \in Indexes, chunk \in Chunk : Forged(s, i, chunk)
    BY <2>5, RegisterData DEF Forged
  <2>6. CASE RecvOther(s) \/ Close(s) \/ Upgrade(s) \/ Settle(s)
    BY <2>6 DEF RecvOther, Close, Upgrade, Settle, Register!vars
  <2>7. CASE Install(s) \/ Reset(s)
    <3>1. assembly[s] # None
      BY <2>7 DEF Install, Reset, AssemblyInv, HoldInv, Holding
    <3>2. storage = None /\ metaSize # 0 /\ Assembled(chunks) # None
      BY <3>1 DEF AssemblyInv, HoldInv, AssemblyIsChunks
    <3>3. DOMAIN chunks = Register!All
      BY <3>2 DEF Assembled, Register!All
    <3>4. CASE Install(s)
      <4>1. storage' = "right"
        BY <3>2, <3>4 DEF Install, AssemblyInv, HoldInv
      <4> QED
        BY <3>2, <3>3, <3>4, <4>1 DEF Install, Register!Next, Register!Write, None
    <3>5. CASE Reset(s)
      BY <3>2, <3>3, <3>5 DEF Reset, NoChunks, Register!Next, Register!Discard, None
    <3> QED
      BY <2>7, <3>4, <3>5
  <2> QED
    BY <1>1, <2>1, <2>2, <2>3, <2>4, <2>5, <2>6, <2>7 DEF SessionNext
<1>2. CASE Pause \/ Resume \/ Remove
  BY <1>2 DEF Pause, Resume, Remove, Register!vars
<1>3. CASE UNCHANGED vars
  BY <1>3 DEF vars, Register!vars
<1> QED
  BY <1>1, <1>2, <1>3 DEF Next

(* The exchange between the sessions implements the register: what is       *)
(* installed is the metadata of the hash, once, after all its chunks.       *)
THEOREM ExchangeImplementsRegister == Spec => ImplementsRegister
<1>1. Init => Register!Init
  BY RegisterInit
<1>2. AssemblyInv /\ [Next]_vars => [Register!Next]_(Register!vars)
  BY RegisterStep
<1> QED
  BY <1>1, <1>2, AssemblyInvHolds, PTL DEF Spec, ImplementsRegister, Register!Spec

=============================================================================
