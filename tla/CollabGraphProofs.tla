---------------------------- MODULE CollabGraphProofs ----------------------------
(***************************************************************************)
(* Proofs about CollabGraph, for any number of clients, edits and broken   *)
(* connections: types, the canvas shows the document, and the clients of a *)
(* quiet room agree.                                                       *)
(***************************************************************************)
EXTENDS CollabGraph, TLAPS

-----------------------------------------------------------------------------
(* Documents and messages.                                                 *)

(* The document without containers and edits.                              *)
LEMMA NoDocType == NoDoc \in Docs /\ NoDoc.seeds = {} /\ NoDoc.edits = {}
  BY DEF NoDoc, Docs

(* Some container of a document with containers holds its nodes.           *)
LEMMA WinnerType ==
  ASSUME NEW d \in Docs, d.seeds # {}
  PROVE  Winner(d) \in d.seeds
<1>1. d.seeds \in SUBSET Clients
  BY DEF Docs
<1>2. \E s \in d.seeds : \A t \in d.seeds : t <= s
  BY <1>1, PeersAssumption
<1> QED
  BY <1>2 DEF Winner

(* The messages that carry a document.                                     *)
LEMMA GraphMsgs ==
  ASSUME NEW d \in Docs
  PROVE  /\ Update(d) \in Msgs /\ Update(d).kind = "graph" /\ Update(d).doc = d
         /\ ~Update(d).flag
         /\ Snapshot(d) \in Msgs /\ Snapshot(d).kind = "graph" /\ Snapshot(d).doc = d
         /\ Snapshot(d).flag
  BY DEF Update, Snapshot, Msgs

(* The messages that carry none.                                           *)
LEMMA OtherMsgs ==
  /\ Join \in Msgs /\ Join.kind = "join" /\ Join.doc = NoDoc
  /\ Resync \in Msgs /\ Resync.kind = "resync" /\ Resync.doc = NoDoc
  /\ \A b \in BOOLEAN : /\ Status(b) \in Msgs /\ Status(b).kind = "status"
                        /\ Status(b).doc = NoDoc /\ Status(b).flag = b
<1>1. NoDoc \in Docs
  BY NoDocType
<1> HIDE DEF NoDoc
<1> QED
  BY <1>1 DEF Join, Resync, Status, Msgs

(* Merging unites containers and edits.                                    *)
LEMMA MergeType ==
  ASSUME NEW d \in Docs, NEW e \in Docs
  PROVE  /\ Merge(d, e) \in Docs
         /\ Merge(d, e).seeds = d.seeds \cup e.seeds
         /\ Merge(d, e).edits = d.edits \cup e.edits
  BY DEF Merge, Docs

(* Seeding gives a document its own container if it has none.              *)
LEMMA SeededType ==
  ASSUME TypeOK, NEW c \in Clients
  PROVE  /\ doc[c] \in Docs /\ Seeded(c) \in Docs
         /\ Seeded(c).seeds = (IF doc[c].seeds = {} THEN {c} ELSE doc[c].seeds)
         /\ Seeded(c).edits = doc[c].edits
         /\ doc[c].seeds # {} => Seeded(c) = doc[c]
<1>1. doc[c] \in Docs
  BY DEF TypeOK
<1> QED
  BY <1>1 DEF Seeded, Docs

(* The document after an edit.                                             *)
Edited(c, x) == [Seeded(c) EXCEPT !.edits = @ \cup {x}]

(* An edit adds itself to the seeded document.                             *)
LEMMA EditedType ==
  ASSUME TypeOK, NEW c \in Clients, NEW x \in Edits
  PROVE  /\ Edited(c, x) \in Docs
         /\ Edited(c, x).seeds = Seeded(c).seeds
         /\ Edited(c, x).edits = Seeded(c).edits \cup {x}
         /\ Winner(Edited(c, x)) = Winner(Seeded(c))
         /\ Winner(Seeded(c)) \in Clients
<1>1. Seeded(c) \in Docs /\ Seeded(c).seeds # {}
  BY SeededType
<1>2. /\ Edited(c, x) \in Docs
      /\ Edited(c, x).seeds = Seeded(c).seeds
      /\ Edited(c, x).edits = Seeded(c).edits \cup {x}
  BY <1>1 DEF Edited, Docs
<1>3. Winner(Edited(c, x)) = Winner(Seeded(c))
  BY <1>2 DEF Winner
<1>4. Winner(Seeded(c)) \in Clients
  BY <1>1, WinnerType DEF Docs
<1> QED
  BY <1>2, <1>3, <1>4

(* What is emitted goes out, or waits in the buffer for a connection.      *)
LEMMA EmitEffect ==
  ASSUME TypeOK, NEW c \in Clients, NEW msgs \in SUBSET Msgs, Emit(c, msgs)
  PROVE  /\ out' \in [Clients -> SUBSET Msgs] /\ buffer' \in [Clients -> SUBSET Msgs]
         /\ \A d \in Clients \ {c} : out'[d] = out[d] /\ buffer'[d] = buffer[d]
         /\ conn[c] = "up" => out'[c] = out[c] \cup msgs /\ buffer'[c] = buffer[c]
         /\ conn[c] # "up" => out'[c] = out[c] /\ buffer'[c] = buffer[c] \cup msgs
<1>1. out[c] \cup msgs \in SUBSET Msgs /\ buffer[c] \cup msgs \in SUBSET Msgs
  BY DEF TypeOK
<1> QED
  BY <1>1 DEF TypeOK, Emit

(* What the server emits is appended where the connection holds.           *)
LEMMA EmitToEffect ==
  ASSUME TypeOK, NEW targets, NEW msg \in Msgs, in' = EmitTo(in, targets, msg)
  PROVE  /\ in' \in [Clients -> Seq(Msgs)]
         /\ \A d \in Clients : in'[d] = IF d \in targets /\ conn[d] = "up"
                                        THEN Append(in[d], msg) ELSE in[d]
<1>1. \A d \in Clients : in[d] \in Seq(Msgs) /\ Append(in[d], msg) \in Seq(Msgs)
  BY DEF TypeOK
<1> QED
  BY <1>1 DEF EmitTo

(* So is the status of each client in the room.                            *)
LEMMA StatusToAllEffect ==
  ASSUME TypeOK, NEW room, NEW l, in' = StatusToAll(in, room, l)
  PROVE  /\ in' \in [Clients -> Seq(Msgs)]
         /\ \A d \in Clients : in'[d] = IF d \in room /\ conn[d] = "up"
                                        THEN Append(in[d], Status(d = l)) ELSE in[d]
<1>1. \A d \in Clients : (d = l) \in BOOLEAN /\ in[d] \in Seq(Msgs)
  BY DEF TypeOK
<1>2. \A d \in Clients : Status(d = l) \in Msgs
  BY <1>1, OtherMsgs
<1>3. \A d \in Clients : Append(in[d], Status(d = l)) \in Seq(Msgs)
  BY <1>1, <1>2
<1> QED
  BY <1>1, <1>3 DEF StatusToAll

(* The message a client handles, and the ones behind it.                   *)
LEMMA ReceivesType ==
  ASSUME TypeOK, NEW c \in Clients, NEW kind, Receives(c, kind)
  PROVE  /\ in[c] \in Seq(Msgs) /\ in[c] # <<>> /\ conn[c] = "up"
         /\ 1 \in DOMAIN in[c] /\ Head(in[c]) = in[c][1] /\ Head(in[c]) \in Msgs
         /\ Head(in[c]).kind = kind /\ Head(in[c]).doc \in Docs /\ Head(in[c]).flag \in BOOLEAN
         /\ Tail(in[c]) \in Seq(Msgs)
         /\ \A i \in DOMAIN Tail(in[c]) :
               i \in Nat \ {0} /\ i + 1 \in DOMAIN in[c] /\ Tail(in[c])[i] = in[c][i + 1]
         /\ \A i \in DOMAIN in[c] : i = 1 \/ (i - 1 \in DOMAIN Tail(in[c]) /\ i \in Nat \ {0}
                                              /\ Tail(in[c])[i - 1] = in[c][i])
<1>1. in[c] \in Seq(Msgs) /\ in[c] # <<>> /\ conn[c] = "up" /\ Head(in[c]).kind = kind
  BY DEF Receives, TypeOK
<1>2. /\ Len(in[c]) \in Nat /\ Len(in[c]) >= 1 /\ DOMAIN in[c] = 1..Len(in[c])
      /\ Head(in[c]) = in[c][1] /\ Head(in[c]) \in Msgs /\ Tail(in[c]) \in Seq(Msgs)
      /\ DOMAIN Tail(in[c]) = 1..(Len(in[c]) - 1)
      /\ \A i \in 1..(Len(in[c]) - 1) : Tail(in[c])[i] = in[c][i + 1]
  BY <1>1
<1>3. Head(in[c]).doc \in Docs /\ Head(in[c]).flag \in BOOLEAN
  BY <1>2 DEF Msgs
<1>4. \A i \in 2..Len(in[c]) : i - 1 \in 1..(Len(in[c]) - 1) /\ (i - 1) + 1 = i
  BY <1>2
<1>5. \A i \in DOMAIN in[c] : i = 1 \/ i \in 2..Len(in[c])
  BY <1>2
<1> QED
  BY <1>1, <1>2, <1>3, <1>4, <1>5

-----------------------------------------------------------------------------
(* Types.                                                                  *)

(* The initial state is well typed.                                        *)
LEMMA TypeInit == Init => TypeOK
<1> SUFFICES ASSUME Init PROVE TypeOK
  OBVIOUS
<1>1. doc \in [Clients -> Docs]
  BY NoDocType DEF Init
<1>2. buffer \in [Clients -> SUBSET Msgs] /\ out \in [Clients -> SUBSET Msgs]
  BY DEF Init
<1>3. in \in [Clients -> Seq(Msgs)]
  BY DEF Init
<1>4. /\ isLeader \in [Clients -> BOOLEAN] /\ pending \in [Clients -> BOOLEAN]
      /\ raf \in [Clients -> BOOLEAN] /\ late \in [Clients -> BOOLEAN]
      /\ stray \in [Clients -> BOOLEAN] /\ unheard \in [Clients -> BOOLEAN]
  BY DEF Init
<1> QED
  BY <1>1, <1>2, <1>3, <1>4 DEF Init, TypeOK

(* A step of the clients' sockets and users keeps the types.               *)
LEMMA TypeUser ==
  ASSUME TypeOK, NEW c \in Clients,
         Connect(c) \/ Drop(c) \/ (\E x \in Edits : Edit(c, x)) \/ ApplyImport(c)
  PROVE  TypeOK'
<1>1. CASE Connect(c)
  <2>1. buffer[c] \cup {Join} \in SUBSET Msgs
    BY OtherMsgs DEF TypeOK
  <2>2. /\ out' \in [Clients -> SUBSET Msgs] /\ buffer' \in [Clients -> SUBSET Msgs]
    BY <1>1, <2>1 DEF Connect, TypeOK
  <2>3. /\ conn' \in [Clients -> {"new", "up", "down"}] /\ pending' \in [Clients -> BOOLEAN]
        /\ late' \in [Clients -> BOOLEAN] /\ unheard' \in [Clients -> BOOLEAN]
    BY <1>1 DEF Connect, TypeOK
  <2>4. stray' \in [Clients -> BOOLEAN]
    <3>1. (doc[c] # NoDoc) \in BOOLEAN
      OBVIOUS
    <3> QED
      BY <1>1, <3>1 DEF Connect, TypeOK
  <2> QED
    BY <1>1, <2>2, <2>3, <2>4 DEF Connect, TypeOK
<1>2. CASE Drop(c)
  <2>1. /\ conn' \in [Clients -> {"new", "up", "down"}] /\ pending' \in [Clients -> BOOLEAN]
        /\ isLeader' \in [Clients -> BOOLEAN] /\ drops' \in Nat
    BY <1>2 DEF Drop, TypeOK
  <2>2. in' \in [Clients -> Seq(Msgs)] /\ out' \in [Clients -> SUBSET Msgs]
    BY <1>2 DEF Drop, TypeOK
  <2>3. unheard' \in [Clients -> BOOLEAN]
    <3>1. \A d \in Clients : (unheard[d] \/ leader = c) \in BOOLEAN
      OBVIOUS
    <3> QED
      BY <1>2, <3>1 DEF Drop
  <2> QED
    BY <1>2, <2>1, <2>2, <2>3 DEF Drop, TypeOK
<1>3. ASSUME NEW x \in Edits, Edit(c, x) PROVE TypeOK'
  <2>1. /\ Seeded(c) \in Docs /\ Edited(c, x) \in Docs /\ Winner(Seeded(c)) \in Clients
    BY SeededType, EditedType
  <2> DEFINE msgs == {Update(Edited(c, x))} \cup
                     (IF Seeded(c) # doc[c] THEN {Update(Seeded(c))} ELSE {})
  <2>2. msgs \in SUBSET Msgs
    BY <2>1, GraphMsgs
  <2>3. Emit(c, msgs)
    BY <1>3 DEF Edit, Edited
  <2>4. out' \in [Clients -> SUBSET Msgs] /\ buffer' \in [Clients -> SUBSET Msgs]
    <3> HIDE DEF msgs
    <3> QED
      BY <2>2, <2>3, EmitEffect
  <2>5. doc' \in [Clients -> Docs]
    <3>1. doc' = [doc EXCEPT ![c] = Edited(c, x)]
      BY <1>3 DEF Edit, Edited
    <3> QED
      BY <2>1, <3>1 DEF TypeOK
  <2>6. canvas' \in [Clients -> SUBSET Edits] /\ where' \in [Edits -> Clients \cup {None}]
    BY <1>3, <2>1 DEF Edit, TypeOK
  <2> QED
    BY <1>3, <2>4, <2>5, <2>6 DEF Edit, TypeOK
<1>4. CASE ApplyImport(c)
  <2>1. Visible(doc[c]) \in SUBSET Edits
    BY DEF Visible, TypeOK, Docs
  <2>2. /\ canvas' \in [Clients -> SUBSET Edits] /\ raf' \in [Clients -> BOOLEAN]
        /\ pending' \in [Clients -> BOOLEAN]
    BY <1>4, <2>1 DEF ApplyImport, TypeOK
  <2>3. unheard' \in [Clients -> BOOLEAN]
    <3>1. (unheard[c] \/ pending[c]) \in BOOLEAN
      OBVIOUS
    <3> QED
      BY <1>4, <3>1 DEF ApplyImport, TypeOK
  <2> QED
    BY <1>4, <2>2, <2>3 DEF ApplyImport, TypeOK
<1> QED
  BY <1>1, <1>2, <1>3, <1>4

(* What a client emits when it is told its role.                           *)
StatusMsgs(c) ==
    IF Head(in[c]).flag THEN IF Seeded(c) = doc[c] THEN {} ELSE {Update(Seeded(c))}
                        ELSE IF pending[c] THEN {Resync} ELSE {}

(* What a client emits when it is asked for the graph.                     *)
ResyncMsgs(c) ==
    IF isLeader[c]
    THEN {Snapshot(Seeded(c))} \cup
         (IF Seeded(c) = doc[c] THEN {} ELSE {Update(Seeded(c))})
    ELSE {}

(* Both are messages.                                                      *)
LEMMA AnswerTypes ==
  ASSUME TypeOK, NEW c \in Clients
  PROVE  StatusMsgs(c) \in SUBSET Msgs /\ ResyncMsgs(c) \in SUBSET Msgs
<1>1. Seeded(c) \in Docs
  BY SeededType
<1> QED
  BY <1>1, GraphMsgs, OtherMsgs DEF StatusMsgs, ResyncMsgs

(* A handler of a client keeps the types.                                  *)
LEMMA TypeClient ==
  ASSUME TypeOK, NEW c \in Clients, OnStatus(c) \/ OnGraphUpdate(c) \/ OnResyncRequest(c)
  PROVE  TypeOK'
<1>0. /\ StatusMsgs(c) \in SUBSET Msgs /\ ResyncMsgs(c) \in SUBSET Msgs
      /\ Seeded(c) \in Docs /\ doc[c] \in Docs
  BY AnswerTypes, SeededType
<1>1. CASE OnStatus(c)
  <2>1. Receives(c, "status") /\ Emit(c, StatusMsgs(c))
    BY <1>1 DEF OnStatus, StatusMsgs
  <2>2. Tail(in[c]) \in Seq(Msgs) /\ Head(in[c]).flag \in BOOLEAN
    BY <2>1, ReceivesType
  <2>3. in' \in [Clients -> Seq(Msgs)]
    BY <1>1, <2>2 DEF OnStatus, TypeOK
  <2>4. isLeader' \in [Clients -> BOOLEAN] /\ pending' \in [Clients -> BOOLEAN]
    BY <1>1, <2>2 DEF OnStatus, TypeOK
  <2>5. doc' \in [Clients -> Docs]
    BY <1>0, <1>1 DEF OnStatus, TypeOK
  <2>6. out' \in [Clients -> SUBSET Msgs] /\ buffer' \in [Clients -> SUBSET Msgs]
    BY <1>0, <2>1, EmitEffect
  <2> QED
    BY <1>1, <2>3, <2>4, <2>5, <2>6 DEF OnStatus, TypeOK
<1>2. CASE OnGraphUpdate(c)
  <2>1. Receives(c, "graph")
    BY <1>2 DEF OnGraphUpdate
  <2>2. Tail(in[c]) \in Seq(Msgs) /\ Head(in[c]).doc \in Docs
    BY <2>1, ReceivesType
  <2>3. Merge(doc[c], Head(in[c]).doc) \in Docs
    BY <1>0, <2>2, MergeType
  <2>4. in' \in [Clients -> Seq(Msgs)] /\ doc' \in [Clients -> Docs]
    BY <1>2, <2>2, <2>3 DEF OnGraphUpdate, TypeOK
  <2>5. raf' \in [Clients -> BOOLEAN] /\ late' \in [Clients -> BOOLEAN]
    <3>1. /\ (raf[c] \/ Merge(doc[c], Head(in[c]).doc) # doc[c]) \in BOOLEAN
          /\ (late[c] /\ ~Head(in[c]).flag) \in BOOLEAN
      OBVIOUS
    <3> QED
      BY <1>2, <3>1 DEF OnGraphUpdate, TypeOK
  <2> QED
    BY <1>2, <2>4, <2>5 DEF OnGraphUpdate, TypeOK
<1>3. CASE OnResyncRequest(c)
  <2>1. Receives(c, "resync") /\ Emit(c, ResyncMsgs(c))
    BY <1>3 DEF OnResyncRequest, ResyncMsgs
  <2>2. Tail(in[c]) \in Seq(Msgs)
    BY <2>1, ReceivesType
  <2>3. in' \in [Clients -> Seq(Msgs)]
    BY <1>3, <2>2 DEF OnResyncRequest, TypeOK
  <2>4. doc' \in [Clients -> Docs]
    BY <1>0, <1>3 DEF OnResyncRequest, TypeOK
  <2>5. out' \in [Clients -> SUBSET Msgs] /\ buffer' \in [Clients -> SUBSET Msgs]
    BY <1>0, <2>1, EmitEffect
  <2> QED
    BY <1>3, <2>3, <2>4, <2>5 DEF OnResyncRequest, TypeOK
<1> QED
  BY <1>1, <1>2, <1>3

(* A handler of the server keeps the types.                                *)
LEMMA TypeServer ==
  ASSUME TypeOK, NEW c \in Clients, ServerStep(c)
  PROVE  TypeOK'
<1>0. /\ Join \in Msgs /\ Resync \in Msgs /\ \A b \in BOOLEAN : Status(b) \in Msgs
  BY OtherMsgs
<1>1. CASE HandleJoin(c)
  <2> DEFINE lead == IF leader = None THEN c ELSE leader
  <2>1. lead \in Clients /\ (lead = c) \in BOOLEAN
    BY DEF TypeOK, None
  <2>2. in' = EmitTo(in, {c}, Status(lead = c)) /\ leader' = lead
    BY <1>1 DEF HandleJoin
  <2> HIDE DEF lead
  <2>3. in' \in [Clients -> Seq(Msgs)]
    BY <1>0, <2>1, <2>2, EmitToEffect
  <2>4. out' \in [Clients -> SUBSET Msgs] /\ joined' \subseteq Clients
    BY <1>1 DEF HandleJoin, TypeOK
  <2>5. late' \in [Clients -> BOOLEAN]
    <3>1. (late[c] /\ lead # c) \in BOOLEAN
      OBVIOUS
    <3> QED
      BY <1>1, <3>1 DEF HandleJoin, TypeOK, lead
  <2> QED
    BY <1>1, <2>1, <2>2, <2>3, <2>4, <2>5 DEF HandleJoin, TypeOK
<1>2. ASSUME NEW m \in out[c], HandleGraph(c, m) PROVE TypeOK'
  <2>1. m \in Msgs /\ (stray[c] /\ m.doc # doc[c]) \in BOOLEAN
    BY DEF TypeOK
  <2>2. in' \in [Clients -> Seq(Msgs)]
    <3>1. CASE c \in joined
      BY <1>2, <2>1, <3>1, EmitToEffect DEF HandleGraph
    <3>2. CASE c \notin joined
      BY <1>2, <3>2 DEF HandleGraph, TypeOK
    <3> QED
      BY <3>1, <3>2
  <2>3. out' \in [Clients -> SUBSET Msgs]
    <3>1. out[c] \ {m} \in SUBSET Msgs /\ (out[c] \ {m}) \cup {Join} \in SUBSET Msgs
      BY <1>0 DEF TypeOK
    <3> QED
      BY <1>2, <3>1 DEF HandleGraph, TypeOK
  <2>4. stray' \in [Clients -> BOOLEAN]
    BY <1>2, <2>1 DEF HandleGraph, TypeOK
  <2> QED
    BY <1>2, <2>2, <2>3, <2>4 DEF HandleGraph, TypeOK
<1>3. CASE HandleResync(c)
  <2>1. in' \in [Clients -> Seq(Msgs)]
    BY <1>0, <1>3, EmitToEffect DEF HandleResync
  <2>2. out' \in [Clients -> SUBSET Msgs]
    BY <1>3 DEF HandleResync, TypeOK
  <2>3. unheard' \in [Clients -> BOOLEAN]
    <3>1. (unheard[c] \/ leader = c \/ conn[leader] # "up") \in BOOLEAN
      OBVIOUS
    <3> QED
      BY <1>3, <3>1 DEF HandleResync, TypeOK
  <2> QED
    BY <1>3, <2>1, <2>2, <2>3 DEF HandleResync, TypeOK
<1>4. CASE HandleDisconnect(c)
  <2>1. in' \in [Clients -> Seq(Msgs)] /\ leader' \in Clients \cup {None}
    <3>1. CASE UNCHANGED in
      BY <1>4, <3>1 DEF HandleDisconnect, TypeOK
    <3>2. ASSUME NEW l \in joined \ {c}, leader' = l, in' = StatusToAll(in, joined \ {c}, l)
          PROVE  in' \in [Clients -> Seq(Msgs)] /\ leader' \in Clients \cup {None}
      BY <3>2, StatusToAllEffect DEF TypeOK
    <3> QED
      BY <1>4, <3>1, <3>2 DEF HandleDisconnect
  <2> QED
    BY <1>4, <2>1 DEF HandleDisconnect, TypeOK
<1> QED
  BY <1>1, <1>2, <1>3, <1>4 DEF ServerStep

(* Every step keeps the types.                                             *)
LEMMA TypeStep == TypeOK /\ [Next]_vars => TypeOK'
<1>1. TypeOK /\ UNCHANGED vars => TypeOK'
  BY DEF vars, TypeOK
<1> QED
  BY <1>1, TypeUser, TypeClient, TypeServer DEF Next, ClientStep

(* Every reachable state is well typed; in particular every edit is in a   *)
(* container that some client created.                                     *)
THEOREM TypeCorrect == Spec => []TypeOK
  BY TypeInit, TypeStep, PTL DEF Spec

(* An appended message comes last.                                         *)
LEMMA AppendAt ==
  ASSUME NEW S, NEW s \in Seq(S), NEW e \in S
  PROVE  /\ \A i \in DOMAIN Append(s, e) :
               \/ i \in DOMAIN s /\ Append(s, e)[i] = s[i]
               \/ i = Len(s) + 1 /\ Append(s, e)[i] = e
         /\ \A i \in DOMAIN s : /\ i \in DOMAIN Append(s, e) /\ Append(s, e)[i] = s[i]
                                /\ i \in Nat \ {0} /\ Len(s) + 1 > i
         /\ Len(s) + 1 \in DOMAIN Append(s, e) /\ Append(s, e)[Len(s) + 1] = e
         /\ Len(s) + 1 > 0
         /\ Append(s, e) # <<>>
         /\ s # <<>> => Head(Append(s, e)) = Head(s)
         /\ s = <<>> => Head(Append(s, e)) = e
<1>1. /\ Append(s, e) \in Seq(S) /\ Len(s) \in Nat /\ DOMAIN s = 1..Len(s)
      /\ Len(Append(s, e)) = Len(s) + 1 /\ DOMAIN Append(s, e) = 1..(Len(s) + 1)
      /\ Append(s, e)[Len(s) + 1] = e
      /\ \A i \in 1..Len(s) : Append(s, e)[i] = s[i]
  OBVIOUS
<1>2. Append(s, e) # <<>> /\ Head(Append(s, e)) = Append(s, e)[1]
  BY <1>1
<1>3. s # <<>> => Head(s) = s[1] /\ 1 \in 1..Len(s)
  BY <1>1
<1>4. s = <<>> => Len(s) + 1 = 1
  OBVIOUS
<1> QED
  BY <1>1, <1>2, <1>3, <1>4

-----------------------------------------------------------------------------
(* The canvas shows the document.                                          *)

(* Edits stay in the containers they were made in.                         *)
WhereKept == \A x \in Edits : where[x] # None => where'[x] = where[x]

(* The documents that are on their way stay placed.                        *)
LEMMA PlacedMono ==
  ASSUME WhereKept, NEW d \in Docs, Placed(d)
  PROVE  Placed(d)'
<1>1. d.edits \subseteq Edits
  BY DEF Docs
<1> QED
  BY <1>1 DEF WhereKept, Placed

(* The documents of typed messages.                                        *)
LEMMA MsgDocs ==
  ASSUME TypeOK, NEW c \in Clients
  PROVE  /\ \A m \in out[c] \cup buffer[c] : m \in Msgs /\ m.doc \in Docs
         /\ \A i \in DOMAIN in[c] : in[c][i] \in Msgs /\ in[c][i].doc \in Docs
<1>1. out[c] \cup buffer[c] \subseteq Msgs /\ in[c] \in Seq(Msgs)
  BY DEF TypeOK
<1>2. \A m \in Msgs : m.doc \in Docs
  BY DEF Msgs
<1> QED
  BY <1>1, <1>2

(* Seeding leaves a document placed.                                       *)
LEMMA SeededPlaced ==
  ASSUME TypeOK, EditsPlaced, NEW c \in Clients
  PROVE  Placed(doc[c]) /\ Placed(Seeded(c)) /\ Placed(NoDoc)
<1>1. Placed(doc[c])
  BY DEF EditsPlaced
<1>2. Seeded(c).seeds # {} /\ Seeded(c).edits = doc[c].edits
  BY SeededType
<1> QED
  BY <1>1, <1>2, NoDocType DEF Placed

(* A step makes no message but from documents that are placed.             *)
LEMMA PlacedNext ==
  ASSUME TypeOK, EditsPlaced, WhereKept,
         \A c \in Clients : /\ doc'[c] = doc[c] \/ Placed(doc[c])'
                            /\ doc'[c].seeds = {} => canvas'[c] = {},
         \A c \in Clients : \A m \in out'[c] \cup buffer'[c] :
            m \in out[c] \cup buffer[c] \/ Placed(m.doc)',
         \A c \in Clients : \A i \in DOMAIN in'[c] :
            (\E j \in DOMAIN in[c] : in'[c][i] = in[c][j]) \/ Placed(in[c][i].doc)'
  PROVE  EditsPlaced'
<1> SUFFICES ASSUME NEW c \in Clients
             PROVE  /\ Placed(doc[c])'
                    /\ \A m \in out'[c] \cup buffer'[c] : Placed(m.doc)'
                    /\ \A i \in DOMAIN in'[c] : Placed(in[c][i].doc)'
  BY DEF EditsPlaced
<1>1. Placed(doc[c])'
  <2>1. doc[c] \in Docs /\ Placed(doc[c])
    BY DEF TypeOK, EditsPlaced
  <2>2. ASSUME doc'[c] = doc[c] PROVE Placed(doc[c])'
    <3>1. PICK d \in Docs : d = doc[c]
      BY <2>1
    <3>2. Placed(d)'
      BY <2>1, <3>1, PlacedMono
    <3> QED
      BY <2>2, <3>1, <3>2 DEF Placed
  <2> QED
    BY <2>2
<1>2. ASSUME NEW m \in out'[c] \cup buffer'[c] PROVE Placed(m.doc)'
  <2>1. ASSUME m \in out[c] \cup buffer[c] PROVE Placed(m.doc)'
    <3>1. m.doc \in Docs /\ Placed(m.doc)
      BY <2>1, MsgDocs DEF EditsPlaced
    <3> QED
      BY <3>1, PlacedMono
  <2> QED
    BY <2>1
<1>3. ASSUME NEW i \in DOMAIN in'[c] PROVE Placed(in[c][i].doc)'
  <2>1. ASSUME NEW j \in DOMAIN in[c], in'[c][i] = in[c][j] PROVE Placed(in[c][i].doc)'
    <3>1. in[c][j].doc \in Docs /\ Placed(in[c][j].doc)
      BY MsgDocs DEF EditsPlaced
    <3>2. PICK d \in Docs : d = in[c][j].doc
      BY <3>1
    <3>3. Placed(d)'
      BY <3>1, <3>2, PlacedMono
    <3> QED
      BY <2>1, <3>2, <3>3 DEF Placed
  <2> QED
    BY <2>1
<1> QED
  BY <1>1, <1>2, <1>3

(* What a client emits, of documents that are placed.                      *)
LEMMA AnswersPlaced ==
  ASSUME TypeOK, EditsPlaced, NEW c \in Clients
  PROVE  \A m \in StatusMsgs(c) \cup ResyncMsgs(c) : Placed(m.doc)
<1>1. Placed(Seeded(c)) /\ Placed(NoDoc) /\ Seeded(c) \in Docs
  BY SeededPlaced, SeededType
<1>2. \A m \in StatusMsgs(c) \cup ResyncMsgs(c) : m.doc = Seeded(c) \/ m.doc = NoDoc
  BY <1>1, GraphMsgs, OtherMsgs DEF StatusMsgs, ResyncMsgs
<1> QED
  BY <1>1, <1>2

(* What is left after a message has been taken was there before.           *)
LEMMA TakenFrom ==
  ASSUME TypeOK, NEW c \in Clients, NEW kind, Receives(c, kind),
         in' = [in EXCEPT ![c] = Tail(@)]
  PROVE  \A d \in Clients : \A i \in DOMAIN in'[d] :
            \E j \in DOMAIN in[d] : in'[d][i] = in[d][j]
<1> SUFFICES ASSUME NEW d \in Clients, NEW i \in DOMAIN in'[d]
             PROVE  \E j \in DOMAIN in[d] : in'[d][i] = in[d][j]
  OBVIOUS
<1>1. CASE d = c
  <2>1. in'[c] = Tail(in[c])
    BY DEF TypeOK
  <2>2. \A k \in DOMAIN Tail(in[c]) : k + 1 \in DOMAIN in[c] /\ Tail(in[c])[k] = in[c][k + 1]
    BY ReceivesType
  <2> QED
    BY <1>1, <2>1, <2>2
<1>2. CASE d # c
  BY <1>2 DEF TypeOK
<1> QED
  BY <1>1, <1>2

(* A message that was not there before is the one appended.                *)
LEMMA AppendedFrom ==
  ASSUME TypeOK, NEW d \in Clients, NEW m \in Msgs,
         in'[d] = in[d] \/ in'[d] = Append(in[d], m)
  PROVE  \A i \in DOMAIN in'[d] :
            (\E j \in DOMAIN in[d] : in'[d][i] = in[d][j]) \/ in'[d][i] = m
<1>1. in[d] \in Seq(Msgs)
  BY DEF TypeOK
<1> QED
  BY <1>1, AppendAt

(* Edits stay in containers, and no document without one has edits.        *)
LEMMA PlacedUser ==
  ASSUME TypeOK, EditsPlaced, NEW c \in Clients,
         Connect(c) \/ Drop(c) \/ (\E x \in Edits : Edit(c, x)) \/ ApplyImport(c)
  PROVE  EditsPlaced'
<1>1. CASE Connect(c)
  <2>1. WhereKept
    BY <1>1 DEF Connect, WhereKept
  <2>2. \A d \in Clients : /\ doc'[d] = doc[d] \/ Placed(doc[d])'
                           /\ doc'[d].seeds = {} => canvas'[d] = {}
    BY <1>1 DEF Connect, EditsPlaced
  <2>3. Placed(Join.doc)'
    BY OtherMsgs, NoDocType DEF Placed
  <2>4. \A d \in Clients : \A m \in out'[d] \cup buffer'[d] :
           m \in out[d] \cup buffer[d] \/ m = Join
    BY <1>1 DEF Connect, TypeOK
  <2>5. \A d \in Clients : \A i \in DOMAIN in'[d] : \E j \in DOMAIN in[d] : in'[d][i] = in[d][j]
    BY <1>1 DEF Connect
  <2> QED
    BY <2>1, <2>2, <2>3, <2>4, <2>5, PlacedNext
<1>2. CASE Drop(c)
  <2>1. WhereKept
    BY <1>2 DEF Drop, WhereKept
  <2>2. \A d \in Clients : /\ doc'[d] = doc[d] \/ Placed(doc[d])'
                           /\ doc'[d].seeds = {} => canvas'[d] = {}
    BY <1>2 DEF Drop, EditsPlaced
  <2>3. \A d \in Clients : \A m \in out'[d] \cup buffer'[d] : m \in out[d] \cup buffer[d]
    BY <1>2 DEF Drop, TypeOK
  <2>4. \A d \in Clients : \A i \in DOMAIN in'[d] : \E j \in DOMAIN in[d] : in'[d][i] = in[d][j]
    BY <1>2 DEF Drop, TypeOK
  <2> QED
    BY <2>1, <2>2, <2>3, <2>4, PlacedNext
<1>3. ASSUME NEW x \in Edits, Edit(c, x) PROVE EditsPlaced'
  <2>1. /\ Seeded(c) \in Docs /\ Edited(c, x) \in Docs
        /\ Seeded(c).seeds # {} /\ Edited(c, x).seeds = Seeded(c).seeds
        /\ Edited(c, x).edits = Seeded(c).edits \cup {x}
        /\ Winner(Seeded(c)) \in Clients
    BY SeededType, EditedType
  <2>2. WhereKept /\ where'[x] # None
    BY <1>3, <2>1, ClientsAssumption DEF Edit, WhereKept, TypeOK, None
  <2>3. Placed(Seeded(c))
    BY SeededPlaced
  <2> DEFINE s == Seeded(c)
             e == Edited(c, x)
  <2>4. PICK ss \in Docs : ss = s
    BY <2>1
  <2>5. PICK ee \in Docs : ee = e
    BY <2>1
  <2>6. Placed(ss)'
    BY <2>2, <2>3, <2>4, PlacedMono
  <2>7. Placed(ee)'
    <3>1. ee.seeds = ss.seeds /\ ee.seeds # {} /\ ee.edits = ss.edits \cup {x}
      BY <2>1, <2>4, <2>5
    <3>2. where'[x] # None /\ \A y \in ss.edits : where'[y] # None
      BY <2>2, <2>6 DEF Placed
    <3> QED
      BY <3>1, <3>2 DEF Placed
  <2>8. \A d \in Clients : /\ doc'[d] = doc[d] \/ Placed(doc[d])'
                           /\ doc'[d].seeds = {} => canvas'[d] = {}
    <3>1. doc' = [doc EXCEPT ![c] = ee] /\ canvas' = [canvas EXCEPT ![c] = @ \cup {x}]
      BY <1>3, <2>5 DEF Edit, Edited
    <3>2. doc'[c] = ee /\ \A d \in Clients \ {c} : doc'[d] = doc[d] /\ canvas'[d] = canvas[d]
      BY <3>1 DEF TypeOK
    <3>3. Placed(doc[c])'
      BY <2>7, <3>2 DEF Placed
    <3> QED
      BY <2>1, <2>5, <3>2, <3>3 DEF EditsPlaced
  <2>9. \A d \in Clients : \A m \in out'[d] \cup buffer'[d] :
           m \in out[d] \cup buffer[d] \/ Placed(m.doc)'
    <3> DEFINE msgs == {Update(ee)} \cup (IF Seeded(c) # doc[c] THEN {Update(ss)} ELSE {})
    <3>1. Emit(c, msgs)
      BY <1>3, <2>4, <2>5 DEF Edit, Edited
    <3>2. msgs \in SUBSET Msgs /\ \A m \in msgs : m.doc = ss \/ m.doc = ee
      BY GraphMsgs
    <3> HIDE DEF msgs
    <3>3. \A d \in Clients : \A m \in out'[d] \cup buffer'[d] : m \in out[d] \cup buffer[d] \cup msgs
      BY <3>1, <3>2, EmitEffect
    <3>4. \A m \in msgs : Placed(m.doc)'
      BY <2>6, <2>7, <3>2 DEF Placed
    <3> QED
      BY <3>3, <3>4
  <2>10. \A d \in Clients : \A i \in DOMAIN in'[d] : \E j \in DOMAIN in[d] : in'[d][i] = in[d][j]
    BY <1>3 DEF Edit
  <2> QED
    BY <2>2, <2>8, <2>9, <2>10, PlacedNext
<1>4. CASE ApplyImport(c)
  <2>1. WhereKept
    BY <1>4 DEF ApplyImport, WhereKept
  <2>2. \A d \in Clients : /\ doc'[d] = doc[d] \/ Placed(doc[d])'
                           /\ doc'[d].seeds = {} => canvas'[d] = {}
    <3>1. doc[c].seeds = {} => Visible(doc[c]) = {}
      BY DEF Visible, EditsPlaced, Placed
    <3> QED
      BY <1>4, <3>1 DEF ApplyImport, EditsPlaced, TypeOK
  <2>3. \A d \in Clients : \A m \in out'[d] \cup buffer'[d] : m \in out[d] \cup buffer[d]
    BY <1>4 DEF ApplyImport
  <2>4. \A d \in Clients : \A i \in DOMAIN in'[d] : \E j \in DOMAIN in[d] : in'[d][i] = in[d][j]
    BY <1>4 DEF ApplyImport
  <2> QED
    BY <2>1, <2>2, <2>3, <2>4, PlacedNext
<1> QED
  BY <1>1, <1>2, <1>3, <1>4

(* So does a handler of a client.                                          *)
LEMMA PlacedClient ==
  ASSUME TypeOK, EditsPlaced, NEW c \in Clients,
         OnStatus(c) \/ OnGraphUpdate(c) \/ OnResyncRequest(c)
  PROVE  EditsPlaced'
<1>0. /\ WhereKept /\ canvas' = canvas /\ where' = where
      /\ \A d \in Clients : \A i \in DOMAIN in'[d] : \E j \in DOMAIN in[d] : in'[d][i] = in[d][j]
  <2>1. in' = [in EXCEPT ![c] = Tail(@)] /\ canvas' = canvas /\ where' = where
    BY DEF OnStatus, OnGraphUpdate, OnResyncRequest
  <2>2. Receives(c, "status") \/ Receives(c, "graph") \/ Receives(c, "resync")
    BY DEF OnStatus, OnGraphUpdate, OnResyncRequest
  <2> QED
    BY <2>1, <2>2, TakenFrom DEF WhereKept
<1>1. \A d \in Clients : Placed(doc[d]) /\ (doc[d].seeds = {} => canvas[d] = {})
  BY DEF EditsPlaced
<1>2. /\ Placed(Seeded(c)) /\ StatusMsgs(c) \in SUBSET Msgs /\ ResyncMsgs(c) \in SUBSET Msgs
      /\ \A m \in StatusMsgs(c) \cup ResyncMsgs(c) : Placed(m.doc)
      /\ Seeded(c).seeds # {}
  BY SeededPlaced, AnswerTypes, AnswersPlaced, SeededType
<1>3. CASE OnStatus(c) \/ OnResyncRequest(c)
  <2>1. Emit(c, StatusMsgs(c)) \/ Emit(c, ResyncMsgs(c))
    BY <1>3 DEF OnStatus, StatusMsgs, OnResyncRequest, ResyncMsgs
  <2>2. \A d \in Clients : \A m \in out'[d] \cup buffer'[d] :
           m \in out[d] \cup buffer[d] \/ Placed(m.doc)
    BY <1>2, <2>1, EmitEffect
  <2>3. \A d \in Clients : \A m \in out'[d] \cup buffer'[d] :
           m \in out[d] \cup buffer[d] \/ Placed(m.doc)'
    BY <1>0, <2>2 DEF Placed
  <2>4. \A d \in Clients : doc'[d] = doc[d] \/ doc'[d] = Seeded(c)
    BY <1>3 DEF OnStatus, OnResyncRequest, TypeOK
  <2>5. \A d \in Clients : /\ doc'[d] = doc[d] \/ Placed(doc[d])'
                           /\ doc'[d].seeds = {} => canvas'[d] = {}
    BY <1>0, <1>1, <1>2, <2>4 DEF Placed
  <2> QED
    BY <1>0, <2>3, <2>5, PlacedNext
<1>4. CASE OnGraphUpdate(c)
  <2> DEFINE h == Head(in[c])
             e == Merge(doc[c], h.doc)
  <2>1. Receives(c, "graph") /\ doc' = [doc EXCEPT ![c] = e] /\ out' = out /\ buffer' = buffer
    BY <1>4 DEF OnGraphUpdate
  <2>2. h.doc \in Docs /\ Placed(h.doc) /\ doc[c] \in Docs
    <3>1. h.doc \in Docs /\ h = in[c][1] /\ 1 \in DOMAIN in[c]
      BY <2>1, ReceivesType
    <3> QED
      BY <3>1 DEF EditsPlaced, TypeOK
  <2>3. /\ e.seeds = doc[c].seeds \cup h.doc.seeds /\ e.edits = doc[c].edits \cup h.doc.edits
    BY <2>2, MergeType
  <2> HIDE DEF e, h
  <2>4. Placed(e) /\ (e.seeds = {} => canvas[c] = {})
    BY <1>1, <2>2, <2>3 DEF Placed
  <2>5. \A d \in Clients : doc'[d] = IF d = c THEN e ELSE doc[d]
    BY <2>1 DEF TypeOK
  <2>6. \A d \in Clients : /\ doc'[d] = doc[d] \/ Placed(doc[d])'
                           /\ doc'[d].seeds = {} => canvas'[d] = {}
    BY <1>0, <1>1, <2>4, <2>5 DEF Placed
  <2>7. \A d \in Clients : \A m \in out'[d] \cup buffer'[d] : m \in out[d] \cup buffer[d]
    BY <2>1
  <2> QED
    BY <1>0, <2>6, <2>7, PlacedNext
<1> QED
  BY <1>3, <1>4

(* The server relays what it was sent, or messages without a document.     *)
LEMMA ServerRelays ==
  ASSUME TypeOK, NEW c \in Clients, ServerStep(c)
  PROVE  /\ UNCHANGED <<conn, doc, canvas, isLeader, pending, raf, buffer, where, drops>>
         /\ \A d \in Clients : \A m \in out'[d] : m \in out[d] \/ m = Join
         /\ \A d \in Clients : \E m \in Msgs :
               /\ in'[d] = in[d] \/ in'[d] = Append(in[d], m)
               /\ m.doc = NoDoc \/ m \in out[c]
<1>0. /\ Join \in Msgs /\ Resync \in Msgs /\ Resync.doc = NoDoc /\ Join.doc = NoDoc
      /\ \A b \in BOOLEAN : Status(b) \in Msgs /\ Status(b).doc = NoDoc
  BY OtherMsgs
<1>1. CASE HandleJoin(c)
  <2> DEFINE lead == IF leader = None THEN c ELSE leader
  <2>1. (lead = c) \in BOOLEAN /\ in' = EmitTo(in, {c}, Status(lead = c))
    BY <1>1 DEF HandleJoin
  <2>2. Status(lead = c) \in Msgs /\ Status(lead = c).doc = NoDoc
    BY <1>0, <2>1
  <2> HIDE DEF lead
  <2>3. \A d \in Clients : in'[d] = in[d] \/ in'[d] = Append(in[d], Status(lead = c))
    BY <2>1, <2>2, EmitToEffect
  <2> QED
    BY <1>1, <2>2, <2>3 DEF HandleJoin, TypeOK
<1>2. ASSUME NEW m \in out[c], HandleGraph(c, m)
      PROVE  /\ UNCHANGED <<conn, doc, canvas, isLeader, pending, raf, buffer, where, drops>>
             /\ \A d \in Clients : \A n \in out'[d] : n \in out[d] \/ n = Join
             /\ \A d \in Clients : in'[d] = in[d] \/ in'[d] = Append(in[d], m)
             /\ m \in Msgs
  <2>1. m \in Msgs
    BY DEF TypeOK
  <2>2. \A d \in Clients : in'[d] = in[d] \/ in'[d] = Append(in[d], m)
    <3>1. CASE in' = EmitTo(in, joined \ {c}, m)
      BY <2>1, <3>1, EmitToEffect
    <3> QED
      BY <1>2, <3>1 DEF HandleGraph
  <2>3. \A d \in Clients : \A n \in out'[d] : n \in out[d] \/ n = Join
    <3>1. \/ out' = [out EXCEPT ![c] = out[c] \ {m}]
          \/ out' = [out EXCEPT ![c] = (out[c] \ {m}) \cup {Join}]
      BY <1>2, Zenon DEF HandleGraph
    <3>2. out \in [Clients -> SUBSET Msgs]
      BY DEF TypeOK
    <3>3. \A d \in Clients : \/ out'[d] = out[d] \/ out'[d] = out[d] \ {m}
                             \/ out'[d] = (out[d] \ {m}) \cup {Join}
      BY <3>1, <3>2
    <3> QED
      BY <3>3
  <2>4. UNCHANGED <<conn, doc, canvas, isLeader, pending, raf, buffer, where, drops>>
    BY <1>2 DEF HandleGraph
  <2> QED
    BY <2>1, <2>2, <2>3, <2>4
<1>3. CASE HandleResync(c)
  <2>1. \A d \in Clients : in'[d] = in[d] \/ in'[d] = Append(in[d], Resync)
    BY <1>0, <1>3, EmitToEffect DEF HandleResync
  <2> QED
    BY <1>0, <1>3, <2>1 DEF HandleResync, TypeOK
<1>4. CASE HandleDisconnect(c)
  <2>1. CASE in' = in
    BY <1>0, <1>4, <2>1 DEF HandleDisconnect
  <2>2. ASSUME NEW l, in' = StatusToAll(in, joined \ {c}, l)
        PROVE  \A d \in Clients : \E m \in Msgs :
                  (in'[d] = in[d] \/ in'[d] = Append(in[d], m)) /\ m.doc = NoDoc
    <3>0. \A d \in Clients : in'[d] = IF d \in joined \ {c} /\ conn[d] = "up"
                                      THEN Append(in[d], Status(d = l)) ELSE in[d]
      BY <2>2, StatusToAllEffect
    <3> SUFFICES ASSUME NEW d \in Clients
                 PROVE  \E m \in Msgs :
                           (in'[d] = in[d] \/ in'[d] = Append(in[d], m)) /\ m.doc = NoDoc
      OBVIOUS
    <3>1. in'[d] = in[d] \/ in'[d] = Append(in[d], Status(d = l))
      BY <3>0
    <3>2. (d = l) \in BOOLEAN
      OBVIOUS
    <3>3. Status(d = l) \in Msgs /\ Status(d = l).doc = NoDoc
      BY <1>0, <3>2
    <3> QED
      BY <3>1, <3>3
  <2>3. /\ UNCHANGED <<conn, doc, canvas, isLeader, pending, raf, buffer, where, drops>>
        /\ out' = out
    BY <1>4 DEF HandleDisconnect
  <2> QED
    BY <1>4, <2>1, <2>2, <2>3 DEF HandleDisconnect
<1> QED
  BY <1>1, <1>2, <1>3, <1>4 DEF ServerStep

(* So a handler of the server leaves the documents placed.                 *)
LEMMA PlacedServer ==
  ASSUME TypeOK, EditsPlaced, NEW c \in Clients, ServerStep(c)
  PROVE  EditsPlaced'
<1>1. /\ UNCHANGED <<doc, canvas, where, buffer>>
      /\ \A d \in Clients : \A m \in out'[d] : m \in out[d] \/ m = Join
  BY ServerRelays
<1>2. Placed(NoDoc) /\ \A m \in out[c] : Placed(m.doc)
  BY SeededPlaced DEF EditsPlaced
<1>3. WhereKept
  BY <1>1 DEF WhereKept
<1>4. \A d \in Clients : \A m \in out'[d] \cup buffer'[d] :
         m \in out[d] \cup buffer[d] \/ Placed(m.doc)'
  BY <1>1, <1>2, OtherMsgs DEF Placed
<1>5. \A d \in Clients : \A i \in DOMAIN in'[d] :
         (\E j \in DOMAIN in[d] : in'[d][i] = in[d][j]) \/ Placed(in[d][i].doc)'
  <2> SUFFICES ASSUME NEW d \in Clients, NEW i \in DOMAIN in'[d]
               PROVE  (\E j \in DOMAIN in[d] : in'[d][i] = in[d][j]) \/ Placed(in[d][i].doc)'
    OBVIOUS
  <2>1. PICK m \in Msgs : /\ in'[d] = in[d] \/ in'[d] = Append(in[d], m)
                          /\ m.doc = NoDoc \/ m \in out[c]
    BY ServerRelays
  <2>2. Placed(m.doc)
    BY <1>2, <2>1
  <2>3. (\E j \in DOMAIN in[d] : in'[d][i] = in[d][j]) \/ in'[d][i] = m
    BY <2>1, AppendedFrom
  <2> QED
    BY <1>1, <2>2, <2>3 DEF Placed
<1>6. \A d \in Clients : /\ doc'[d] = doc[d] \/ Placed(doc[d])'
                         /\ doc'[d].seeds = {} => canvas'[d] = {}
  BY <1>1 DEF EditsPlaced
<1> QED
  BY <1>3, <1>4, <1>5, <1>6, PlacedNext

(* EditsPlaced is inductive.                                               *)
LEMMA PlacedStep == TypeOK /\ EditsPlaced /\ [Next]_vars => EditsPlaced'
<1>1. TypeOK /\ EditsPlaced /\ UNCHANGED vars => EditsPlaced'
  BY DEF vars, EditsPlaced, Placed
<1> QED
  BY <1>1, PlacedUser, PlacedClient, PlacedServer DEF Next, ClientStep

(* The canvas shows the document after every step.                         *)
LEMMA CanvasStep == TypeOK /\ EditsPlaced /\ CanvasShowsDoc /\ [Next]_vars => CanvasShowsDoc'
<1> SUFFICES ASSUME TypeOK, EditsPlaced, CanvasShowsDoc, [Next]_vars,
                    NEW d \in Clients, ~raf'[d], doc'[d].seeds # {}
             PROVE  canvas'[d] = {x \in doc'[d].edits : where'[x] = Winner(doc'[d])}
  BY DEF CanvasShowsDoc, Visible, Winner
<1>0. ~raf[d] /\ doc[d].seeds # {} => canvas[d] = {x \in doc[d].edits : where[x] = Winner(doc[d])}
  BY DEF CanvasShowsDoc, Visible
<1>1. CASE UNCHANGED <<doc, canvas, raf, where>>
  BY <1>0, <1>1
<1>2. ASSUME NEW c \in Clients, NEW x \in Edits, Edit(c, x)
      PROVE  canvas'[d] = {y \in doc'[d].edits : where'[y] = Winner(doc'[d])}
  <2>1. /\ doc' = [doc EXCEPT ![c] = Edited(c, x)] /\ where[x] = None /\ raf' = raf
        /\ canvas' = [canvas EXCEPT ![c] = @ \cup {x}]
        /\ where' = [where EXCEPT ![x] = Winner(Seeded(c))]
    BY <1>2 DEF Edit, Edited
  <2>2. \A e \in Clients : x \notin doc[e].edits /\ doc[e].edits \subseteq Edits
    BY <2>1 DEF EditsPlaced, Placed, TypeOK, Docs
  <2>3. \A y \in Edits : where'[y] = IF y = x THEN Winner(Seeded(c)) ELSE where[y]
    BY <2>1 DEF TypeOK
  <2>4. CASE d # c
    <3>1. doc'[d] = doc[d] /\ canvas'[d] = canvas[d] /\ raf'[d] = raf[d]
      BY <2>1, <2>4 DEF TypeOK
    <3> QED
      BY <1>0, <2>2, <2>3, <3>1
  <2>5. CASE d = c
    <3>1. doc'[c] = Edited(c, x) /\ canvas'[c] = canvas[c] \cup {x} /\ ~raf[c]
      BY <2>1, <2>5 DEF TypeOK
    <3>2. /\ Edited(c, x).edits = doc[c].edits \cup {x}
          /\ Winner(Edited(c, x)) = Winner(Seeded(c))
          /\ doc[c].seeds # {} => Seeded(c) = doc[c]
      BY SeededType, EditedType
    <3>3. canvas[c] = {y \in doc[c].edits : where[y] = Winner(Seeded(c))}
      <4>1. CASE doc[c].seeds # {}
        BY <1>0, <2>5, <3>1, <3>2, <4>1
      <4>2. CASE doc[c].seeds = {}
        <5>1. doc[c].edits = {} /\ canvas[c] = {}
          BY <4>2 DEF EditsPlaced, Placed
        <5> QED
          BY <5>1
      <4> QED
        BY <4>1, <4>2
    <3> QED
      BY <2>2, <2>3, <2>5, <3>1, <3>2, <3>3
  <2> QED
    BY <2>4, <2>5
<1>3. ASSUME NEW c \in Clients, ApplyImport(c)
      PROVE  canvas'[d] = {y \in doc'[d].edits : where'[y] = Winner(doc'[d])}
  BY <1>0, <1>3 DEF ApplyImport, Visible, TypeOK
<1>4. ASSUME NEW c \in Clients, OnStatus(c) \/ OnResyncRequest(c)
      PROVE  canvas'[d] = {y \in doc'[d].edits : where'[y] = Winner(doc'[d])}
  <2>1. canvas' = canvas /\ raf' = raf /\ where' = where
    BY <1>4 DEF OnStatus, OnResyncRequest
  <2>2. doc' = doc \/ doc' = [doc EXCEPT ![c] = Seeded(c)]
    BY <1>4 DEF OnStatus, OnResyncRequest
  <2>3. CASE doc[d].seeds # {}
    <3>1. doc'[d] = doc[d]
      BY <2>2, <2>3, SeededType DEF TypeOK
    <3> QED
      BY <1>0, <2>1, <2>3, <3>1
  <2>4. CASE doc[d].seeds = {}
    <3>1. canvas[d] = {} /\ doc[d].edits = {}
      BY <2>4 DEF EditsPlaced, Placed
    <3>2. doc'[d].edits = {}
      BY <2>2, <3>1, SeededType DEF TypeOK
    <3> QED
      BY <2>1, <3>1, <3>2
  <2> QED
    BY <2>3, <2>4
<1>5. ASSUME NEW c \in Clients, OnGraphUpdate(c)
      PROVE  canvas'[d] = {y \in doc'[d].edits : where'[y] = Winner(doc'[d])}
  <2> DEFINE e == Merge(doc[c], Head(in[c]).doc)
  <2>1. /\ doc' = [doc EXCEPT ![c] = e] /\ canvas' = canvas /\ where' = where
        /\ raf' = [raf EXCEPT ![c] = @ \/ e # doc[c]]
    BY <1>5 DEF OnGraphUpdate
  <2> HIDE DEF e
  <2>2. doc'[d] = doc[d] /\ ~raf[d]
    BY <2>1 DEF TypeOK
  <2> QED
    BY <1>0, <2>1, <2>2
<1>6. ASSUME NEW c \in Clients, Connect(c) \/ Drop(c) \/ ServerStep(c)
      PROVE  UNCHANGED <<doc, canvas, raf, where>>
  BY <1>6, ServerRelays DEF Connect, Drop
<1>7. UNCHANGED vars => UNCHANGED <<doc, canvas, raf, where>>
  BY DEF vars
<1> QED
  BY <1>1, <1>2, <1>3, <1>4, <1>5, <1>6, <1>7 DEF Next, ClientStep

(* CanvasInv is inductive, and holds at the start.                         *)
LEMMA CanvasInductive ==
  /\ Init => CanvasInv
  /\ CanvasInv /\ [Next]_vars => CanvasInv'
<1>1. Init => EditsPlaced /\ CanvasShowsDoc
  BY NoDocType DEF Init, EditsPlaced, Placed, CanvasShowsDoc
<1> QED
  BY <1>1, TypeInit, TypeStep, PlacedStep, CanvasStep DEF CanvasInv

(* A user sees the graph that the document holds, whenever no frame is     *)
(* pending: no import and no edit is lost on the way to the canvas,        *)
(* however they interleave with the frames that show them.                 *)
THEOREM CanvasIsDocument == Spec => []CanvasShowsDoc
<1>1. CanvasInv => CanvasShowsDoc
  BY DEF CanvasInv
<1> QED
  BY <1>1, CanvasInductive, PTL DEF Spec

-----------------------------------------------------------------------------
(* Documents as sets of parts.                                             *)

(* A document is smaller iff its parts are fewer.                          *)
LEMMA PartsOrder ==
  ASSUME NEW d \in Docs, NEW e \in Docs
  PROVE  Parts(d) \subseteq Parts(e) <=> d.seeds \subseteq e.seeds /\ d.edits \subseteq e.edits
<1>1. ASSUME Parts(d) \subseteq Parts(e)
      PROVE  d.seeds \subseteq e.seeds /\ d.edits \subseteq e.edits
  <2>1. ASSUME NEW s \in d.seeds PROVE s \in e.seeds
    <3>1. <<s, "seed">> \in Parts(e)
      BY <1>1 DEF Parts
    <3> QED
      BY <3>1 DEF Parts
  <2>2. ASSUME NEW x \in d.edits PROVE x \in e.edits
    <3>1. <<x, "edit">> \in Parts(e)
      BY <1>1 DEF Parts
    <3> QED
      BY <3>1 DEF Parts
  <2> QED
    BY <2>1, <2>2
<1>2. ASSUME d.seeds \subseteq e.seeds, d.edits \subseteq e.edits
      PROVE  Parts(d) \subseteq Parts(e)
  BY <1>2 DEF Parts
<1> QED
  BY <1>1, <1>2

(* Nothing is in no document, and merging unites.                          *)
LEMMA PartsMerge ==
  /\ Parts(NoDoc) = {}
  /\ \A d \in Docs, e \in Docs : Parts(Merge(d, e)) = Parts(d) \cup Parts(e)
<1>1. Parts(NoDoc) = {}
  BY NoDocType DEF Parts
<1>2. ASSUME NEW d \in Docs, NEW e \in Docs
      PROVE  Parts(Merge(d, e)) = Parts(d) \cup Parts(e)
  <2>1. Merge(d, e).seeds = d.seeds \cup e.seeds /\ Merge(d, e).edits = d.edits \cup e.edits
    BY MergeType
  <2>2. \A S, T, U : (S \cup T) \X U = (S \X U) \cup (T \X U)
    OBVIOUS
  <2> QED
    BY <2>1, <2>2 DEF Parts
<1> QED
  BY <1>1, <1>2

(* Seeding and editing only add to a document.                             *)
LEMMA PartsGrow ==
  ASSUME TypeOK, NEW c \in Clients
  PROVE  /\ Parts(doc[c]) \subseteq Parts(Seeded(c))
         /\ \A x \in Edits : Parts(Seeded(c)) \subseteq Parts(Edited(c, x))
<1>1. doc[c] \in Docs /\ Seeded(c) \in Docs
  BY SeededType
<1>2. Parts(doc[c]) \subseteq Parts(Seeded(c))
  BY <1>1, SeededType, PartsOrder
<1>3. ASSUME NEW x \in Edits PROVE Parts(Seeded(c)) \subseteq Parts(Edited(c, x))
  BY <1>1, EditedType, PartsOrder
<1> QED
  BY <1>2, <1>3

(* What is ahead of a client, now and after a step.                        *)
LEMMA AheadParts ==
  ASSUME NEW c
  PROVE  /\ \A p : p \in Ahead(c) <=>
               \/ p \in Parts(doc[c])
               \/ \E i \in DOMAIN in[c] : in[c][i].kind = "graph" /\ p \in Parts(in[c][i].doc)
         /\ \A p : p \in Ahead(c)' <=>
               \/ p \in Parts(doc'[c])
               \/ \E i \in DOMAIN in'[c] : in'[c][i].kind = "graph" /\ p \in Parts(in'[c][i].doc)
  BY DEF Ahead, Parts

(* What is leaving a client, now and after a step.                         *)
LEMMA LeavingParts ==
  ASSUME NEW c
  PROVE  /\ \A p : p \in Leaving(c) <=> \E m \in out[c] : m.kind = "graph" /\ p \in Parts(m.doc)
         /\ \A p : p \in Leaving(c)' <=> \E m \in out'[c] : m.kind = "graph" /\ p \in Parts(m.doc)
  BY DEF Leaving, Parts

(* Nothing happens to a client.                                            *)
LEMMA AheadSame ==
  ASSUME NEW d, doc'[d] = doc[d], in'[d] = in[d]
  PROVE  Ahead(d)' = Ahead(d)
<1>1. \A p : p \in Ahead(d)' <=> p \in Ahead(d)
  BY AheadParts
<1> QED
  BY <1>1

(* A client changes its document.                                          *)
LEMMA AheadGrown ==
  ASSUME NEW d, Parts(doc[d]) \subseteq Parts(doc'[d]), in'[d] = in[d]
  PROVE  Ahead(d)' = Ahead(d) \cup Parts(doc'[d])
<1>1. \A p : p \in Ahead(d)' <=> p \in Ahead(d) \/ p \in Parts(doc'[d])
  BY AheadParts
<1> QED
  BY <1>1

(* The graphs on their way are the next one and those behind it.           *)
LEMMA TakenGraphs ==
  ASSUME TypeOK, NEW c \in Clients, NEW kind, Receives(c, kind), in'[c] = Tail(in[c]), NEW p
  PROVE  (\E i \in DOMAIN in[c] : in[c][i].kind = "graph" /\ p \in Parts(in[c][i].doc)) <=>
            \/ kind = "graph" /\ p \in Parts(Head(in[c]).doc)
            \/ \E i \in DOMAIN in'[c] : in'[c][i].kind = "graph" /\ p \in Parts(in'[c][i].doc)
<1>1. /\ 1 \in DOMAIN in[c] /\ Head(in[c]) = in[c][1] /\ in[c][1].kind = kind
      /\ \A i \in DOMAIN in'[c] : i + 1 \in DOMAIN in[c] /\ in'[c][i] = in[c][i + 1]
      /\ \A i \in DOMAIN in[c] : i = 1 \/ (i - 1 \in DOMAIN in'[c] /\ in'[c][i - 1] = in[c][i])
  BY ReceivesType
<1>2. ASSUME NEW i \in DOMAIN in[c], in[c][i].kind = "graph", p \in Parts(in[c][i].doc)
      PROVE  \/ kind = "graph" /\ p \in Parts(Head(in[c]).doc)
             \/ \E k \in DOMAIN in'[c] : in'[c][k].kind = "graph" /\ p \in Parts(in'[c][k].doc)
  <2>1. CASE i = 1
    BY <1>1, <1>2, <2>1
  <2>2. CASE i # 1
    <3>1. i - 1 \in DOMAIN in'[c] /\ in'[c][i - 1] = in[c][i]
      BY <1>1, <2>2
    <3> QED
      BY <1>2, <3>1
  <2> QED
    BY <2>1, <2>2
<1>3. ASSUME NEW i \in DOMAIN in'[c], in'[c][i].kind = "graph", p \in Parts(in'[c][i].doc)
      PROVE  \E k \in DOMAIN in[c] : in[c][k].kind = "graph" /\ p \in Parts(in[c][k].doc)
  <2>1. i + 1 \in DOMAIN in[c] /\ in'[c][i] = in[c][i + 1]
    BY <1>1
  <2> QED
    BY <1>3, <2>1
<1> QED
  BY <1>1, <1>2, <1>3

(* A client handles a message that carries no graph, and seeds perhaps.    *)
LEMMA AheadTaken ==
  ASSUME TypeOK, NEW c \in Clients, NEW kind, Receives(c, kind), kind # "graph",
         in'[c] = Tail(in[c]), Parts(doc[c]) \subseteq Parts(doc'[c])
  PROVE  Ahead(c)' = Ahead(c) \cup Parts(doc'[c])
<1>1. ASSUME NEW p PROVE p \in Ahead(c)' <=> p \in Ahead(c) \/ p \in Parts(doc'[c])
  BY TakenGraphs, AheadParts
<1> QED
  BY <1>1

(* A client imports a graph that was ahead of it.                          *)
LEMMA AheadImported ==
  ASSUME TypeOK, NEW c \in Clients, Receives(c, "graph"),
         in'[c] = Tail(in[c]), doc'[c] = Merge(doc[c], Head(in[c]).doc)
  PROVE  Ahead(c)' = Ahead(c) /\ Parts(doc'[c]) = Parts(doc[c]) \cup Parts(Head(in[c]).doc)
<1>1. Head(in[c]).doc \in Docs /\ doc[c] \in Docs
  BY ReceivesType DEF TypeOK
<1>2. Parts(doc'[c]) = Parts(doc[c]) \cup Parts(Head(in[c]).doc)
  BY <1>1, PartsMerge
<1>3. ASSUME NEW p PROVE p \in Ahead(c)' <=> p \in Ahead(c)
  BY <1>2, TakenGraphs, AheadParts
<1> QED
  BY <1>2, <1>3

(* The server emits a message to a client.                                 *)
LEMMA AheadAppended ==
  ASSUME TypeOK, NEW d \in Clients, NEW m \in Msgs, in'[d] = Append(in[d], m), doc'[d] = doc[d]
  PROVE  Ahead(d)' = Ahead(d) \cup (IF m.kind = "graph" THEN Parts(m.doc) ELSE {})
<1>1. /\ \A i \in DOMAIN in'[d] : \/ i \in DOMAIN in[d] /\ in'[d][i] = in[d][i]
                                  \/ i = Len(in[d]) + 1 /\ in'[d][i] = m
      /\ \A i \in DOMAIN in[d] : i \in DOMAIN in'[d] /\ in'[d][i] = in[d][i]
      /\ Len(in[d]) + 1 \in DOMAIN in'[d] /\ in'[d][Len(in[d]) + 1] = m
  <2>1. in[d] \in Seq(Msgs)
    BY DEF TypeOK
  <2> QED
    BY <2>1, AppendAt
<1>2. \A p : p \in Ahead(d)' <=> p \in Ahead(d) \/ (m.kind = "graph" /\ p \in Parts(m.doc))
  BY <1>1, AheadParts
<1> QED
  BY <1>2

(* A client emits messages.                                                *)
LEMMA LeavingSent ==
  ASSUME NEW d, NEW msgs, out'[d] = out[d] \cup msgs
  PROVE  /\ Leaving(d) \subseteq Leaving(d)'
         /\ \A m \in msgs : m.kind = "graph" => Parts(m.doc) \subseteq Leaving(d)'
  BY LeavingParts

-----------------------------------------------------------------------------
(* The shape of the room.                                                  *)

(* The part of RoomShape about one client.                                 *)
Shape(c) == Connection(c) /\ Newcomer(c) /\ Role(c) /\ Emitted(c)

(* A step that does nothing to a client but emit to it, when it is in the  *)
(* room, keeps its shape.                                                  *)
LEMMA ShapeSame ==
  ASSUME TypeOK, NEW d \in Clients, Shape(d),
         conn'[d] = conn[d], out'[d] = out[d], buffer'[d] = buffer[d], doc'[d] = doc[d],
         isLeader'[d] = isLeader[d], pending'[d] = pending[d], late'[d] = late[d],
         stray'[d] = stray[d], unheard[d] => unheard'[d],
         d \in joined' <=> d \in joined, leader = d => leader' = d,
         \/ in'[d] = in[d]
         \/ d \in joined /\ conn[d] = "up" /\ \E m \in Msgs :
               in'[d] = Append(in[d], m) /\ (m.kind = "status" /\ m.flag => leader' = d)
  PROVE  Shape(d)'
<1>1. Connection(d)'
  BY DEF Shape, Connection
<1>2. Newcomer(d)'
  <2>1. Leaving(d)' = Leaving(d)
    <3>1. \A p : p \in Leaving(d)' <=> p \in Leaving(d)
      BY LeavingParts
    <3> QED
      BY <3>1
  <2> QED
    BY <2>1 DEF Shape, Newcomer
<1>3. Role(d)'
  <2>1. ASSUME NEW i \in DOMAIN in'[d], in'[d][i].kind = "status", in'[d][i].flag
        PROVE  leader' = d
    <3>1. CASE in'[d] = in[d]
      BY <2>1, <3>1 DEF Shape, Role
    <3>2. ASSUME NEW m \in Msgs, in'[d] = Append(in[d], m), m.kind = "status" /\ m.flag => leader' = d
          PROVE  leader' = d
      <4>1. (\E j \in DOMAIN in[d] : in'[d][i] = in[d][j]) \/ in'[d][i] = m
        BY <3>2, AppendedFrom
      <4> QED
        BY <2>1, <3>2, <4>1 DEF Shape, Role
    <3> QED
      BY <3>1, <3>2
  <2> QED
    BY <2>1 DEF Shape, Role
<1>4. Emitted(d)'
  BY DEF Shape, Emitted
<1> QED
  BY <1>1, <1>2, <1>3, <1>4 DEF Shape

(* The messages are not each other.                                        *)
LEMMA Different ==
  /\ \A d \in Docs : Update(d) # Join /\ Snapshot(d) # Join /\ Update(d) # Resync /\ Snapshot(d) # Resync
  /\ Join # Resync
  /\ ~IsSnapshot(Join) /\ ~IsSnapshot(Resync)
  /\ \A d \in Docs : ~IsSnapshot(Update(d)) /\ IsSnapshot(Snapshot(d))
  /\ \A b \in BOOLEAN : ~IsSnapshot(Status(b))
  BY GraphMsgs, OtherMsgs DEF IsSnapshot

(* A client emits updates or snapshots of its new document, or a request   *)
(* for the graph: its connection and what it sent keep their shape.        *)
LEMMA ShapeEmits ==
  ASSUME TypeOK, NEW c \in Clients, Shape(c), NEW msgs \in SUBSET Msgs, Emit(c, msgs),
         \A m \in msgs : m # Join /\ Parts(m.doc) \subseteq Parts(doc'[c])
                         /\ (IsSnapshot(m) => leader' = c)
                         /\ (conn[c] # "up" => m.kind = "graph" /\ ~m.flag),
         Parts(doc[c]) \subseteq Parts(doc'[c]),
         conn' = conn, joined' = joined, leader' = leader
  PROVE  /\ Emitted(c)'
         /\ conn'[c] = "up" => (Join \in out'[c] <=> c \notin joined')
         /\ \A m \in out'[c] : IsSnapshot(m) => leader' = c
         /\ conn'[c] # "up" => out'[c] = {}
<1>1. /\ conn[c] = "up" => out'[c] = out[c] \cup msgs /\ buffer'[c] = buffer[c]
      /\ conn[c] # "up" => out'[c] = out[c] /\ buffer'[c] = buffer[c] \cup msgs
  BY EmitEffect
<1>2. Emitted(c)'
  BY <1>1 DEF Shape, Emitted
<1> QED
  BY <1>1, <1>2 DEF Shape, Connection, Role

(* RoomShape is about every client.                                        *)
LEMMA ShapeOf ==
  /\ RoomShape => \A d \in Clients : Shape(d)
  /\ (leader' = None <=> joined' = {}) /\ (leader' # None => leader' \in joined')
       /\ (\A d \in Clients : Shape(d)') => RoomShape'
  BY DEF RoomShape, Shape

(* A step of the clients' sockets and users keeps the shape of the room.   *)
LEMMA ShapeUser ==
  ASSUME TypeOK, RoomShape, NEW c \in Clients,
         Connect(c) \/ Drop(c) \/ (\E x \in Edits : Edit(c, x)) \/ ApplyImport(c)
  PROVE  RoomShape'
<1>0. \A d \in Clients : Shape(d)
  BY ShapeOf
<1>1. leader' = leader /\ joined' = joined
  BY DEF Connect, Drop, Edit, ApplyImport
<1>2. ASSUME NEW d \in Clients, d # c PROVE Shape(d)'
  <2>1. /\ conn'[d] = conn[d] /\ doc'[d] = doc[d] /\ isLeader'[d] = isLeader[d]
        /\ pending'[d] = pending[d] /\ late'[d] = late[d] /\ stray'[d] = stray[d]
        /\ in'[d] = in[d]
    BY <1>2 DEF Connect, Drop, Edit, ApplyImport, TypeOK
  <2>2. out'[d] = out[d] /\ buffer'[d] = buffer[d]
    <3>1. CASE Connect(c) \/ Drop(c) \/ ApplyImport(c)
      BY <1>2, <3>1 DEF Connect, Drop, ApplyImport, TypeOK
    <3>2. ASSUME NEW x \in Edits, Edit(c, x) PROVE \E msgs : Emit(c, msgs)
      BY <3>2 DEF Edit
    <3>3. ASSUME NEW msgs, Emit(c, msgs) PROVE out'[d] = out[d] /\ buffer'[d] = buffer[d]
      BY <1>2, <3>3 DEF Emit, TypeOK
    <3> QED
      BY <3>1, <3>2, <3>3
  <2>3. unheard[d] => unheard'[d]
    BY <1>2 DEF Connect, Drop, Edit, ApplyImport, TypeOK
  <2> QED
    BY <1>0, <1>1, <2>1, <2>2, <2>3, ShapeSame
<1>3. CASE Connect(c)
  <2>1. /\ conn[c] # "up" /\ conn'[c] = "up" /\ out'[c] = buffer[c] \cup {Join} /\ buffer'[c] = {}
        /\ pending'[c] /\ late'[c] /\ stray'[c] = (doc[c] # NoDoc) /\ c \notin joined
        /\ doc' = doc /\ in' = in /\ isLeader' = isLeader
    BY <1>3 DEF Connect, TypeOK
  <2>2. in[c] = <<>> /\ ~isLeader[c] /\ (\A m \in buffer[c] : m.kind = "graph" /\ ~m.flag)
    BY <1>0, <2>1 DEF Shape, Connection, Emitted
  <2>3. Connection(c)'
    BY <1>1, <2>1 DEF Connection
  <2>4. Newcomer(c)'
    BY <2>1, <2>2, PartsMerge DEF Newcomer
  <2>5. Role(c)'
    BY <2>1, <2>2, Different DEF Role, IsSnapshot
  <2>6. Emitted(c)'
    BY <1>0, <2>1, OtherMsgs, PartsMerge DEF Shape, Emitted
  <2> QED
    BY <1>1, <1>2, <2>3, <2>4, <2>5, <2>6, ShapeOf DEF Shape, RoomShape
<1>4. CASE Drop(c)
  <2>1. /\ conn'[c] = "down" /\ out'[c] = {} /\ in'[c] = <<>> /\ ~isLeader'[c]
        /\ doc' = doc /\ buffer' = buffer
    BY <1>4 DEF Drop, TypeOK
  <2>2. Connection(c)' /\ Newcomer(c)' /\ Role(c)' /\ Emitted(c)'
    BY <1>0, <2>1 DEF Shape, Connection, Newcomer, Role, Emitted
  <2> QED
    BY <1>1, <1>2, <2>2, ShapeOf DEF Shape, RoomShape
<1>5. ASSUME NEW x \in Edits, Edit(c, x) PROVE RoomShape'
  <2> DEFINE msgs == {Update(Edited(c, x))} \cup
                     (IF Seeded(c) # doc[c] THEN {Update(Seeded(c))} ELSE {})
  <2>1. /\ Emit(c, msgs) /\ doc' = [doc EXCEPT ![c] = Edited(c, x)]
        /\ UNCHANGED <<conn, isLeader, pending, in, late, stray, unheard>>
    BY <1>5 DEF Edit, Edited
  <2>2. /\ Seeded(c) \in Docs /\ Edited(c, x) \in Docs
        /\ Parts(doc[c]) \subseteq Parts(Seeded(c))
        /\ Parts(Seeded(c)) \subseteq Parts(Edited(c, x))
    BY SeededType, EditedType, PartsGrow
  <2>3. doc'[c] = Edited(c, x)
    BY <2>1 DEF TypeOK
  <2>4. /\ msgs \in SUBSET Msgs
        /\ \A m \in msgs : /\ m # Join /\ m.kind = "graph" /\ ~m.flag /\ ~IsSnapshot(m)
                           /\ Parts(m.doc) \subseteq Parts(doc'[c])
    BY <2>2, <2>3, GraphMsgs, Different
  <2>5. Update(Edited(c, x)) \in msgs /\ Update(Edited(c, x)).doc = doc'[c]
        /\ Update(Edited(c, x)).kind = "graph"
    BY <2>2, <2>3, GraphMsgs
  <2> HIDE DEF msgs
  <2>6. /\ Emitted(c)'
        /\ conn'[c] = "up" => (Join \in out'[c] <=> c \notin joined')
        /\ \A m \in out'[c] : IsSnapshot(m) => leader' = c
        /\ conn'[c] # "up" => out'[c] = {}
    <3>1. Parts(doc[c]) \subseteq Parts(doc'[c])
      BY <2>2, <2>3
    <3>2. conn' = conn
      BY <2>1
    <3> QED
      BY <1>0, <1>1, <2>1, <2>4, <3>1, <3>2, ShapeEmits
  <2>7. conn[c] = "up" => Parts(doc'[c]) \subseteq Leaving(c)'
    <3>1. conn[c] = "up" => out'[c] = out[c] \cup msgs
      BY <2>1, <2>4, EmitEffect
    <3> QED
      BY <2>5, <3>1, LeavingSent
  <2>8. Connection(c)' /\ Newcomer(c)' /\ Role(c)'
    BY <1>0, <1>1, <2>1, <2>6, <2>7 DEF Shape, Connection, Newcomer, Role
  <2> QED
    BY <1>1, <1>2, <2>6, <2>8, ShapeOf DEF Shape, RoomShape
<1>6. CASE ApplyImport(c)
  <2>1. /\ UNCHANGED <<conn, doc, isLeader, buffer, out, in, late, stray>>
        /\ unheard'[c] = (unheard[c] \/ pending[c])
    BY <1>6 DEF ApplyImport, TypeOK
  <2>2. Connection(c)' /\ Role(c)' /\ Emitted(c)'
    BY <1>0, <1>1, <2>1 DEF Shape, Connection, Role, Emitted
  <2>3. Leaving(c)' = Leaving(c)
    BY <2>1 DEF Leaving
  <2>4. Newcomer(c)'
    BY <1>0, <1>1, <2>1, <2>3 DEF Shape, Newcomer
  <2> QED
    BY <1>1, <1>2, <2>2, <2>4, ShapeOf DEF Shape, RoomShape
<1> QED
  BY <1>3, <1>4, <1>5, <1>6

(* What a client that was told its role, or asked for the graph, emits,    *)
(* and what it makes of its document.                                      *)
LEMMA Answers ==
  ASSUME TypeOK, RoomShape, NEW c \in Clients, OnStatus(c) \/ OnResyncRequest(c)
  PROVE  \E msgs \in SUBSET Msgs :
            /\ Emit(c, msgs) /\ conn[c] = "up" /\ out'[c] = out[c] \cup msgs /\ buffer'[c] = buffer[c]
            /\ \A m \in msgs : m # Join /\ Parts(m.doc) \subseteq Parts(doc'[c])
                               /\ (IsSnapshot(m) => leader = c)
            /\ Parts(doc[c]) \subseteq Parts(doc'[c])
            /\ doc'[c] = doc[c] \/ Parts(doc'[c]) \subseteq Leaving(c)'
            /\ \A d \in Clients \ {c} : doc'[d] = doc[d] /\ out'[d] = out[d] /\ buffer'[d] = buffer[d]
<1>0. /\ Seeded(c) \in Docs /\ Parts(doc[c]) \subseteq Parts(Seeded(c))
      /\ StatusMsgs(c) \in SUBSET Msgs /\ ResyncMsgs(c) \in SUBSET Msgs
  BY SeededType, PartsGrow, AnswerTypes
<1>1. ASSUME NEW msgs \in SUBSET Msgs, Emit(c, msgs), conn[c] = "up",
             \A m \in msgs : m # Join /\ Parts(m.doc) \subseteq Parts(doc'[c])
                             /\ (IsSnapshot(m) => leader = c),
             doc'[c] = doc[c] \/ (doc'[c] = Seeded(c) /\ Update(Seeded(c)) \in msgs),
             \A d \in Clients \ {c} : doc'[d] = doc[d]
      PROVE  /\ out'[c] = out[c] \cup msgs /\ buffer'[c] = buffer[c]
             /\ Parts(doc[c]) \subseteq Parts(doc'[c])
             /\ doc'[c] = doc[c] \/ Parts(doc'[c]) \subseteq Leaving(c)'
             /\ \A d \in Clients \ {c} : out'[d] = out[d] /\ buffer'[d] = buffer[d]
  <2>1. /\ out'[c] = out[c] \cup msgs /\ buffer'[c] = buffer[c]
        /\ \A d \in Clients \ {c} : out'[d] = out[d] /\ buffer'[d] = buffer[d]
    BY <1>1, EmitEffect
  <2>2. \A m \in msgs : m.kind = "graph" => Parts(m.doc) \subseteq Leaving(c)'
    BY <2>1, LeavingSent
  <2>3. Update(Seeded(c)).kind = "graph" /\ Update(Seeded(c)).doc = Seeded(c)
    BY <1>0, GraphMsgs
  <2> QED
    BY <1>0, <1>1, <2>1, <2>2, <2>3
<1>2. CASE OnStatus(c)
  <2>1. /\ Receives(c, "status") /\ Emit(c, StatusMsgs(c))
        /\ doc' = IF Head(in[c]).flag THEN [doc EXCEPT ![c] = Seeded(c)] ELSE doc
    BY <1>2 DEF OnStatus, StatusMsgs
  <2>2. /\ doc'[c] = IF Head(in[c]).flag THEN Seeded(c) ELSE doc[c]
        /\ \A d \in Clients \ {c} : doc'[d] = doc[d]
    BY <2>1 DEF TypeOK
  <2>3. \A m \in StatusMsgs(c) : \/ m = Update(Seeded(c)) /\ Head(in[c]).flag
                                 \/ m = Resync
    BY DEF StatusMsgs
  <2>4. \A m \in StatusMsgs(c) : m # Join /\ Parts(m.doc) \subseteq Parts(doc'[c])
                                 /\ (IsSnapshot(m) => leader = c)
    BY <1>0, <2>2, <2>3, GraphMsgs, OtherMsgs, Different, PartsMerge
  <2>5. doc'[c] = doc[c] \/ (doc'[c] = Seeded(c) /\ Update(Seeded(c)) \in StatusMsgs(c))
    BY <2>2 DEF StatusMsgs
  <2>6. conn[c] = "up"
    BY <2>1, ReceivesType
  <2> QED
    BY <1>0, <1>1, <2>1, <2>2, <2>4, <2>5, <2>6
<1>3. CASE OnResyncRequest(c)
  <2>1. /\ Receives(c, "resync") /\ Emit(c, ResyncMsgs(c))
        /\ doc' = IF isLeader[c] THEN [doc EXCEPT ![c] = Seeded(c)] ELSE doc
    BY <1>3 DEF OnResyncRequest, ResyncMsgs
  <2>2. /\ doc'[c] = IF isLeader[c] THEN Seeded(c) ELSE doc[c]
        /\ \A d \in Clients \ {c} : doc'[d] = doc[d]
    BY <2>1 DEF TypeOK
  <2>3. \A m \in ResyncMsgs(c) : isLeader[c] /\ (m = Update(Seeded(c)) \/ m = Snapshot(Seeded(c)))
    BY DEF ResyncMsgs
  <2>4. \A m \in ResyncMsgs(c) : m # Join /\ Parts(m.doc) \subseteq Parts(doc'[c])
                                 /\ (IsSnapshot(m) => leader = c)
    BY <1>0, <2>2, <2>3, GraphMsgs, Different DEF RoomShape, Role
  <2>5. doc'[c] = doc[c] \/ (doc'[c] = Seeded(c) /\ Update(Seeded(c)) \in ResyncMsgs(c))
    BY <2>2 DEF ResyncMsgs
  <2>6. conn[c] = "up"
    BY <2>1, ReceivesType
  <2> QED
    BY <1>0, <1>1, <2>1, <2>2, <2>4, <2>5, <2>6
<1> QED
  BY <1>2, <1>3

(* A handler of a client keeps the shape of the room.                      *)
LEMMA ShapeClient ==
  ASSUME TypeOK, RoomShape, NEW c \in Clients,
         OnStatus(c) \/ OnGraphUpdate(c) \/ OnResyncRequest(c)
  PROVE  RoomShape'
<1>0. \A d \in Clients : Shape(d)
  BY ShapeOf
<1>1. /\ UNCHANGED <<conn, leader, joined, stray, unheard>>
      /\ in' = [in EXCEPT ![c] = Tail(@)]
  BY DEF OnStatus, OnGraphUpdate, OnResyncRequest
<1>2. PICK kind : Receives(c, kind)
  BY DEF OnStatus, OnGraphUpdate, OnResyncRequest
<1>3. conn[c] = "up" /\ c \in joined /\ 1 \in DOMAIN in[c] /\ Head(in[c]) = in[c][1]
      /\ Head(in[c]) \in Msgs
  BY <1>0, <1>2, ReceivesType DEF Shape, Newcomer
<1>4. /\ in'[c] = Tail(in[c]) /\ \A d \in Clients \ {c} : in'[d] = in[d]
      /\ \A i \in DOMAIN in'[c] : \E j \in DOMAIN in[c] : in'[c][i] = in[c][j]
  BY <1>1, <1>2, TakenFrom DEF TypeOK
<1>5. \A d \in Clients \ {c} : /\ isLeader'[d] = isLeader[d] /\ pending'[d] = pending[d]
                               /\ late'[d] = late[d]
  BY DEF OnStatus, OnGraphUpdate, OnResyncRequest, TypeOK
<1>6. /\ Parts(doc[c]) \subseteq Parts(doc'[c])
      /\ \A d \in Clients \ {c} : doc'[d] = doc[d] /\ out'[d] = out[d] /\ buffer'[d] = buffer[d]
      /\ Join \in out'[c] <=> Join \in out[c]
      /\ \A m \in out'[c] : IsSnapshot(m) => leader = c
      /\ Emitted(c)'
  <2>1. CASE OnStatus(c) \/ OnResyncRequest(c)
    <3>1. PICK msgs \in SUBSET Msgs :
             /\ Emit(c, msgs) /\ conn[c] = "up" /\ out'[c] = out[c] \cup msgs /\ buffer'[c] = buffer[c]
             /\ \A m \in msgs : m # Join /\ Parts(m.doc) \subseteq Parts(doc'[c])
                                /\ (IsSnapshot(m) => leader = c)
             /\ Parts(doc[c]) \subseteq Parts(doc'[c])
             /\ \A d \in Clients \ {c} : doc'[d] = doc[d] /\ out'[d] = out[d] /\ buffer'[d] = buffer[d]
      BY <2>1, Answers
    <3>2. Emitted(c)'
      BY <1>0, <3>1 DEF Shape, Emitted
    <3> QED
      BY <1>0, <3>1, <3>2 DEF Shape, Role
  <2>2. CASE OnGraphUpdate(c)
    <3>1. /\ out' = out /\ buffer' = buffer /\ Receives(c, "graph")
          /\ doc'[c] = Merge(doc[c], Head(in[c]).doc)
          /\ \A d \in Clients \ {c} : doc'[d] = doc[d]
      BY <2>2 DEF OnGraphUpdate, TypeOK
    <3>2. Parts(doc[c]) \subseteq Parts(doc'[c])
      BY <1>4, <3>1, AheadImported
    <3> QED
      BY <1>0, <3>1, <3>2 DEF Shape, Role, Emitted
  <2> QED
    BY <2>1, <2>2
<1>7. isLeader'[c] => leader = c
  <2>1. CASE OnStatus(c)
    <3>1. isLeader'[c] = Head(in[c]).flag /\ Head(in[c]).kind = "status"
      BY <2>1 DEF OnStatus, Receives, TypeOK
    <3> QED
      BY <1>0, <1>3, <3>1 DEF Shape, Role
  <2>2. CASE OnGraphUpdate(c) \/ OnResyncRequest(c)
    BY <1>0, <2>2 DEF Shape, Role, OnGraphUpdate, OnResyncRequest
  <2> QED
    BY <2>1, <2>2
<1>8. \A d \in Clients \ {c} : Shape(d)'
  BY <1>0, <1>1, <1>4, <1>5, <1>6, ShapeSame
<1>9. Connection(c)' /\ Newcomer(c)'
  BY <1>0, <1>1, <1>3, <1>6 DEF Shape, Connection, Newcomer
<1>10. Role(c)'
  BY <1>0, <1>1, <1>4, <1>6, <1>7 DEF Shape, Role
<1> QED
  BY <1>1, <1>6, <1>8, <1>9, <1>10, ShapeOf DEF Shape, RoomShape

(* Who has a leader has a room.                                            *)
LEMMA LeaderJoined ==
  ASSUME TypeOK, RoomShape
  PROVE  /\ \A d \in Clients : d # None /\ (leader = d => d \in joined)
         /\ \A d \in Clients, m \in Msgs : m \in out[d] => conn[d] = "up"
         /\ \A d \in joined : leader # None /\ leader \in joined /\ d \in Clients
         /\ leader = None => \A d \in Clients : in[d] = <<>>
<1>1. \A d \in Clients : d # None
  BY ClientsAssumption DEF None
<1>2. leader = None => \A d \in Clients : in[d] = <<>>
  BY DEF RoomShape, Connection, Newcomer
<1> QED
  BY <1>1, <1>2 DEF RoomShape, Connection, TypeOK

(* A handler of the server keeps the shape of the room.                    *)
LEMMA ShapeServer ==
  ASSUME TypeOK, RoomShape, NEW c \in Clients, ServerStep(c)
  PROVE  RoomShape'
<1>0. (\A d \in Clients : Shape(d))
      /\ UNCHANGED <<conn, doc, canvas, isLeader, pending, raf, buffer, where, drops>>
  BY ShapeOf, ServerRelays
<1>1. CASE HandleJoin(c)
  <2> DEFINE lead == IF leader = None THEN c ELSE leader
  <2>1. /\ Join \in out[c] /\ joined' = joined \cup {c} /\ leader' = lead
        /\ in' = EmitTo(in, {c}, Status(lead = c)) /\ UNCHANGED <<stray, unheard>>
    BY <1>1 DEF HandleJoin
  <2>2. /\ out'[c] = out[c] \ {Join}
        /\ \A d \in Clients \ {c} : out'[d] = out[d] /\ late'[d] = late[d]
    BY <1>1 DEF HandleJoin, TypeOK
  <2>3. conn[c] = "up" /\ c \notin joined /\ leader # c
    BY <1>0, <2>1, LeaderJoined, OtherMsgs DEF Shape, Connection
  <2>4. ~isLeader[c] /\ in[c] = <<>> /\ \A m \in out[c] : ~IsSnapshot(m)
    BY <1>0, <2>3 DEF Shape, Role, Newcomer
  <2>5. lead # None /\ lead \in joined' /\ \A d \in Clients \ {c} : leader = d => lead = d
    BY <2>1, LeaderJoined DEF RoomShape
  <2>6. Status(lead = c) \in Msgs /\ Status(lead = c).kind = "status"
        /\ Status(lead = c).flag = (lead = c)
    <3>1. (lead = c) \in BOOLEAN
      OBVIOUS
    <3> QED
      BY <3>1, OtherMsgs
  <2> HIDE DEF lead
  <2>7. \A d \in Clients : in'[d] = IF d \in {c} /\ conn[d] = "up"
                                    THEN Append(in[d], Status(lead = c)) ELSE in[d]
    BY <2>1, <2>6, EmitToEffect
  <2>8. \A d \in Clients \ {c} : Shape(d)'
    BY <1>0, <2>1, <2>2, <2>5, <2>7, ShapeSame
  <2>9. Connection(c)' /\ Newcomer(c)'
    BY <1>0, <2>1, <2>2, <2>3 DEF Connection, Newcomer
  <2>10. \A i \in DOMAIN in'[c] : in'[c][i].flag => lead = c
    <3>1. \A i \in DOMAIN in'[c] : (\E j \in DOMAIN in[c] : in'[c][i] = in[c][j])
                                   \/ in'[c][i] = Status(lead = c)
      BY <2>3, <2>6, <2>7, AppendedFrom
    <3>2. DOMAIN in[c] = {}
      BY <2>4
    <3> QED
      BY <2>6, <3>1, <3>2
  <2>11. Role(c)'
    BY <1>0, <2>1, <2>2, <2>4, <2>10 DEF Role
  <2>12. Emitted(c)'
    BY <1>0, <2>2 DEF Shape, Emitted
  <2> QED
    BY <2>1, <2>5, <2>8, <2>9, <2>11, <2>12, ShapeOf DEF Shape
<1>2. ASSUME NEW m \in out[c], HandleGraph(c, m) PROVE RoomShape'
  <2>1. m \in Msgs /\ m.kind = "graph" /\ m # Join /\ UNCHANGED <<joined, leader, late, unheard>>
    BY <1>2, OtherMsgs DEF HandleGraph, TypeOK
  <2>2. /\ c \in joined => in' = EmitTo(in, joined \ {c}, m) /\ out'[c] = out[c] \ {m}
        /\ c \notin joined => in' = in /\ out'[c] = (out[c] \ {m}) \cup {Join} /\ stray'[c]
    BY <1>2 DEF HandleGraph, TypeOK
  <2>3. \A d \in Clients \ {c} : out'[d] = out[d] /\ stray'[d] = stray[d]
    BY <1>2 DEF HandleGraph, TypeOK
  <2>4. \A d \in Clients : \/ in'[d] = in[d]
                           \/ d \in joined /\ conn[d] = "up" /\ in'[d] = Append(in[d], m) /\ d # c
    <3>1. CASE c \in joined
      <4>1. \A d \in Clients : in'[d] = IF d \in joined \ {c} /\ conn[d] = "up"
                                        THEN Append(in[d], m) ELSE in[d]
        BY <2>1, <2>2, <3>1, EmitToEffect
      <4> QED
        BY <4>1
    <3> QED
      BY <2>2, <3>1
  <2>5. \A d \in Clients \ {c} : Shape(d)'
    BY <1>0, <2>1, <2>3, <2>4, ShapeSame
  <2>6. conn[c] = "up" /\ in'[c] = in[c]
    BY <2>1, <2>4, LeaderJoined
  <2>7. Connection(c)' /\ Newcomer(c)'
    BY <1>0, <2>1, <2>2, <2>6 DEF Shape, Connection, Newcomer
  <2>8. Role(c)'
    BY <1>0, <2>1, <2>2, <2>6, Different DEF Shape, Role
  <2>9. Emitted(c)'
    BY <1>0, <2>2, OtherMsgs, PartsMerge DEF Shape, Emitted
  <2> QED
    BY <2>1, <2>5, <2>7, <2>8, <2>9, ShapeOf DEF Shape, RoomShape
<1>3. CASE HandleResync(c)
  <2>1. /\ Resync \in out[c] /\ in' = EmitTo(in, joined \ {c}, Resync)
        /\ UNCHANGED <<joined, leader, late, stray>>
    BY <1>3 DEF HandleResync
  <2>2. /\ out'[c] = out[c] \ {Resync} /\ \A d \in Clients \ {c} : out'[d] = out[d]
        /\ \A d \in Clients : unheard[d] => unheard'[d]
    BY <1>3 DEF HandleResync, TypeOK
  <2>3. \A d \in Clients : in'[d] = IF d \in joined \ {c} /\ conn[d] = "up"
                                    THEN Append(in[d], Resync) ELSE in[d]
    BY <2>1, OtherMsgs, EmitToEffect
  <2>4. \A d \in Clients \ {c} : Shape(d)'
    BY <1>0, <2>1, <2>2, <2>3, OtherMsgs, ShapeSame
  <2>5. conn[c] = "up" /\ in'[c] = in[c]
    BY <2>1, <2>3, LeaderJoined, OtherMsgs
  <2>6. Leaving(c)' = Leaving(c)
    <3>1. \A p : p \in Leaving(c)' <=> p \in Leaving(c)
      BY <2>2, OtherMsgs, LeavingParts
    <3> QED
      BY <3>1
  <2>7. Connection(c)' /\ Newcomer(c)'
    BY <1>0, <2>1, <2>2, <2>5, <2>6, Different DEF Shape, Connection, Newcomer
  <2>8. Role(c)' /\ Emitted(c)'
    BY <1>0, <2>1, <2>2, <2>5 DEF Shape, Role, Emitted
  <2> QED
    BY <2>1, <2>4, <2>7, <2>8, ShapeOf DEF Shape, RoomShape
<1>4. CASE HandleDisconnect(c)
  <2>1. /\ conn[c] = "down" /\ c \in joined /\ joined' = joined \ {c}
        /\ UNCHANGED <<out, late, stray, unheard>>
    BY <1>4 DEF HandleDisconnect
  <2>2. in[c] = <<>> /\ out[c] = {} /\ ~isLeader[c]
    BY <1>0, <2>1 DEF Shape, Connection
  <2>3. ASSUME \A d \in Clients \ {c} : leader = d => leader' = d,
               \A d \in Clients : \/ in'[d] = in[d]
                                  \/ d \in joined' /\ conn[d] = "up" /\ \E m \in Msgs :
                                        in'[d] = Append(in[d], m)
                                        /\ (m.kind = "status" /\ m.flag => leader' = d)
        PROVE  \A d \in Clients : Shape(d)'
    <3>1. \A d \in Clients \ {c} : Shape(d)'
      BY <1>0, <2>1, <2>3, ShapeSame
    <3>2. in'[c] = in[c]
      BY <2>1, <2>3
    <3>3. Shape(c)'
      BY <1>0, <2>1, <2>2, <3>2 DEF Shape, Connection, Newcomer, Role, Emitted
    <3> QED
      BY <3>1, <3>3
  <2>4. CASE in' = in /\ ((leader' = leader /\ leader # c) \/ (leader = c /\ joined \ {c} = {} /\ leader' = None))
    <3>1. \A d \in Clients : Shape(d)'
      BY <2>3, <2>4
    <3>2. (leader' = None <=> joined' = {}) /\ (leader' # None => leader' \in joined')
      BY <2>1, <2>4, LeaderJoined DEF RoomShape
    <3> QED
      BY <3>1, <3>2, ShapeOf
  <2>5. ASSUME leader = c, NEW l \in joined \ {c}, leader' = l, in' = StatusToAll(in, joined \ {c}, l)
        PROVE  RoomShape'
    <3>1. \A d \in Clients : in'[d] = IF d \in joined \ {c} /\ conn[d] = "up"
                                      THEN Append(in[d], Status(d = l)) ELSE in[d]
      BY <2>5, StatusToAllEffect
    <3>2. ASSUME NEW d \in Clients
          PROVE  \/ in'[d] = in[d]
                 \/ d \in joined' /\ conn[d] = "up" /\ \E m \in Msgs :
                       in'[d] = Append(in[d], m) /\ (m.kind = "status" /\ m.flag => leader' = d)
      <4>1. (d = l) \in BOOLEAN
        OBVIOUS
      <4>2. Status(d = l) \in Msgs /\ Status(d = l).flag = (d = l)
        BY <4>1, OtherMsgs
      <4> QED
        BY <2>1, <2>5, <3>1, <4>2
    <3>3. \A d \in Clients : Shape(d)'
      BY <2>3, <2>5, <3>2
    <3>4. leader' # None /\ leader' \in joined'
      BY <2>1, <2>5, LeaderJoined DEF TypeOK
    <3> QED
      BY <3>3, <3>4, ShapeOf
  <2>6. \/ in' = in /\ ((leader' = leader /\ leader # c) \/ (leader = c /\ joined \ {c} = {} /\ leader' = None))
        \/ leader = c /\ \E l \in joined \ {c} : leader' = l /\ in' = StatusToAll(in, joined \ {c}, l)
    BY <1>4 DEF HandleDisconnect
  <2> QED
    BY <2>4, <2>5, <2>6
<1> QED
  BY <1>1, <1>2, <1>3, <1>4 DEF ServerStep

-----------------------------------------------------------------------------
(* Heirs, and the leader that founded the room.                            *)

(* The part of HeirsUninformed about one client.                           *)
Heir(d) ==
    ~unheard[d] =>
        /\ conn[leader] # "up" => late[d] /\ ~SentSnapshot(d)
        /\ d = leader => ~SentSnapshot(d)

(* A snapshot that is on its way was sent, or comes with this step.        *)
LEMMA SnapshotFrom ==
  ASSUME NEW d, \A i \in DOMAIN in'[d] : \/ \E j \in DOMAIN in[d] : in'[d][i] = in[d][j]
                                         \/ ~IsSnapshot(in'[d][i])
  PROVE  SentSnapshot(d)' => SentSnapshot(d)
<1> SUFFICES ASSUME NEW i \in DOMAIN in'[d], IsSnapshot(in'[d][i])
             PROVE  SentSnapshot(d)
  BY DEF SentSnapshot, IsSnapshot
<1> QED
  BY DEF SentSnapshot

(* Who was not informed and is not now stays so while the leader stays.    *)
LEMMA HeirSame ==
  ASSUME NEW d, Heir(d), leader' = leader, conn'[leader] = conn[leader],
         late[d] => late'[d], unheard[d] => unheard'[d],
         SentSnapshot(d)' => SentSnapshot(d)
  PROVE  Heir(d)'
  BY DEF Heir

(* A client that receives the graph and was heard has a leader that is     *)
(* there, and is not the leader.                                           *)
LEMMA HeirsStep ==
  ASSUME TypeOK, RoomShape, HeirsUninformed, [Next]_vars
  PROVE  HeirsUninformed'
<1>0. \A d \in joined : Heir(d) /\ d \in Clients /\ leader # None /\ leader \in joined
  BY LeaderJoined DEF HeirsUninformed, Heir
<1>a. (\A d \in joined' : Heir(d)') => HeirsUninformed'
  BY DEF HeirsUninformed, Heir
<1>1. CASE UNCHANGED vars
  BY <1>1 DEF vars, HeirsUninformed, SentSnapshot
<1>2. ASSUME NEW c \in Clients, Connect(c) PROVE HeirsUninformed'
  <2>1. c \notin joined /\ UNCHANGED <<in, joined, leader>>
    BY <1>2 DEF Connect
  <2>2. \A d \in Clients \ {c} : conn'[d] = conn[d] /\ late'[d] = late[d] /\ unheard'[d] = unheard[d]
    BY <1>2 DEF Connect, TypeOK
  <2>3. \A d \in joined : SentSnapshot(d)' => SentSnapshot(d)
    BY <2>1 DEF SentSnapshot
  <2> QED
    BY <1>0, <1>a, <2>1, <2>2, <2>3, HeirSame
<1>3. ASSUME NEW c \in Clients, Drop(c) PROVE HeirsUninformed'
  <2>1. UNCHANGED <<joined, leader, late>> /\ in' = [in EXCEPT ![c] = <<>>]
    BY <1>3 DEF Drop
  <2>2. /\ \A d \in Clients : unheard'[d] = (unheard[d] \/ leader = c)
        /\ \A d \in Clients \ {c} : conn'[d] = conn[d]
    BY <1>3 DEF Drop, TypeOK
  <2>3. \A d \in joined : SentSnapshot(d)' => SentSnapshot(d)
    <3>1. \A d \in joined : in'[d] = in[d] \/ in'[d] = <<>>
      BY <1>0, <2>1 DEF TypeOK
    <3> QED
      BY <3>1, SnapshotFrom
  <2>4. CASE leader = c
    BY <1>0, <1>a, <2>1, <2>2, <2>4 DEF Heir
  <2>5. CASE leader # c
    BY <1>0, <1>a, <2>1, <2>2, <2>3, <2>5, HeirSame
  <2> QED
    BY <2>4, <2>5
<1>4. ASSUME NEW c \in Clients, (\E x \in Edits : Edit(c, x)) \/ ApplyImport(c)
      PROVE  HeirsUninformed'
  <2>1. UNCHANGED <<conn, in, joined, leader, late>>
    BY <1>4 DEF Edit, ApplyImport
  <2>2. \A d \in Clients : unheard[d] => unheard'[d]
    BY <1>4 DEF Edit, ApplyImport, TypeOK
  <2>3. \A d \in joined : SentSnapshot(d)' => SentSnapshot(d)
    BY <2>1 DEF SentSnapshot
  <2> QED
    BY <1>0, <1>a, <2>1, <2>2, <2>3, HeirSame
<1>5. ASSUME NEW c \in Clients, OnStatus(c) \/ OnResyncRequest(c) \/ OnGraphUpdate(c)
      PROVE  HeirsUninformed'
  <2>1. UNCHANGED <<conn, joined, leader, unheard>> /\ in' = [in EXCEPT ![c] = Tail(@)]
    BY <1>5 DEF OnStatus, OnResyncRequest, OnGraphUpdate
  <2>2. PICK kind : Receives(c, kind)
    BY <1>5 DEF OnStatus, OnGraphUpdate, OnResyncRequest
  <2>3. \A d \in joined : SentSnapshot(d)' => SentSnapshot(d)
    BY <1>0, <2>1, <2>2, TakenFrom, SnapshotFrom
  <2>4. \A d \in Clients : late[d] => late'[d] \/ (d = c /\ SentSnapshot(d))
    <3>1. CASE OnStatus(c) \/ OnResyncRequest(c)
      BY <3>1 DEF OnStatus, OnResyncRequest
    <3>2. CASE OnGraphUpdate(c)
      <4>1. \A d \in Clients \ {c} : late'[d] = late[d]
        BY <3>2 DEF OnGraphUpdate, TypeOK
      <4>2. late'[c] = (late[c] /\ ~Head(in[c]).flag) /\ Receives(c, "graph")
        BY <3>2 DEF OnGraphUpdate, TypeOK
      <4>3. /\ 1 \in DOMAIN in[c] /\ Head(in[c]) = in[c][1] /\ in[c][1].kind = "graph"
            /\ Head(in[c]).flag \in BOOLEAN
        BY <4>2, ReceivesType
      <4>4. Head(in[c]).flag => SentSnapshot(c)
        BY <4>3 DEF SentSnapshot, IsSnapshot
      <4> QED
        BY <4>1, <4>2, <4>4
    <3> QED
      BY <1>5, <3>1, <3>2
  <2> QED
    BY <1>0, <1>a, <2>1, <2>3, <2>4 DEF Heir
<1>6. ASSUME NEW c \in Clients, HandleJoin(c) PROVE HeirsUninformed'
  <2> DEFINE lead == IF leader = None THEN c ELSE leader
  <2>1. /\ Join \in out[c] /\ joined' = joined \cup {c} /\ leader' = lead
        /\ in' = EmitTo(in, {c}, Status(lead = c)) /\ UNCHANGED <<conn, unheard>>
    BY <1>6 DEF HandleJoin
  <2>2. conn[c] = "up" /\ c \notin joined /\ in[c] = <<>> /\ late[c]
    BY <2>1, LeaderJoined, OtherMsgs DEF RoomShape, Connection, Newcomer
  <2>3. /\ late'[c] = (late[c] /\ lead # c)
        /\ \A d \in Clients \ {c} : late'[d] = late[d]
    BY <1>6 DEF HandleJoin, TypeOK
  <2>4. (lead = c) \in BOOLEAN
    OBVIOUS
  <2>5. leader # None => leader # c /\ leader' = leader
    BY <1>0, <2>1, <2>2 DEF RoomShape
  <2>6. leader = None => leader' = c /\ joined = {}
    BY <2>1 DEF RoomShape
  <2> HIDE DEF lead
  <2>7. \A d \in Clients : in'[d] = IF d \in {c} /\ conn[d] = "up"
                                    THEN Append(in[d], Status(lead = c)) ELSE in[d]
    BY <2>1, <2>4, OtherMsgs, EmitToEffect
  <2>8. ~SentSnapshot(c)'
    <3>1. Status(lead = c) \in Msgs /\ ~IsSnapshot(Status(lead = c))
      BY <2>4, OtherMsgs, Different
    <3>2. \A i \in DOMAIN in'[c] : (\E j \in DOMAIN in[c] : in'[c][i] = in[c][j])
                                   \/ in'[c][i] = Status(lead = c)
      BY <2>2, <2>7, <3>1, AppendedFrom
    <3>3. SentSnapshot(c)' => SentSnapshot(c)
      BY <3>1, <3>2, SnapshotFrom
    <3>4. DOMAIN in[c] = {}
      BY <2>2
    <3> QED
      BY <3>3, <3>4 DEF SentSnapshot
  <2>9. \A d \in joined : SentSnapshot(d)' => SentSnapshot(d)
    BY <1>0, <2>2, <2>7 DEF SentSnapshot
  <2>10. CASE leader = None
    BY <1>a, <2>1, <2>2, <2>6, <2>8, <2>10 DEF Heir
  <2>11. CASE leader # None
    <3>1. Heir(c)'
      BY <2>1, <2>2, <2>3, <2>5, <2>8, <2>11 DEF Heir
    <3>2. \A d \in joined : Heir(d)'
      BY <1>0, <2>1, <2>2, <2>3, <2>5, <2>9, <2>11, HeirSame
    <3> QED
      BY <1>a, <2>1, <3>1, <3>2
  <2> QED
    BY <2>10, <2>11

<1>7. ASSUME NEW c \in Clients, NEW m \in out[c], HandleGraph(c, m) PROVE HeirsUninformed'
  <2>1. m \in Msgs /\ m.kind = "graph" /\ UNCHANGED <<conn, joined, leader, late, unheard>>
    BY <1>7 DEF HandleGraph, TypeOK
  <2>2. conn[c] = "up"
    BY <2>1, LeaderJoined
  <2>3. IsSnapshot(m) => leader = c
    BY DEF RoomShape, Role
  <2>4. \A d \in Clients : in'[d] = in[d] \/ (d # c /\ in'[d] = Append(in[d], m))
    <3>1. CASE in' = EmitTo(in, joined \ {c}, m)
      <4>1. \A d \in Clients : in'[d] = IF d \in joined \ {c} /\ conn[d] = "up"
                                        THEN Append(in[d], m) ELSE in[d]
        BY <2>1, <3>1, EmitToEffect
      <4> QED
        BY <4>1
    <3> QED
      BY <1>7, <3>1 DEF HandleGraph
  <2>5. CASE IsSnapshot(m)
    <3>1. in'[c] = in[c] /\ leader = c
      BY <2>3, <2>4, <2>5
    <3>2. SentSnapshot(c)' => SentSnapshot(c)
      BY <3>1 DEF SentSnapshot
    <3> QED
      BY <1>0, <1>a, <2>1, <2>2, <3>1, <3>2 DEF Heir
  <2>6. CASE ~IsSnapshot(m)
    <3>1. ASSUME NEW d \in joined PROVE SentSnapshot(d)' => SentSnapshot(d)
      <4>1. \A i \in DOMAIN in'[d] : (\E j \in DOMAIN in[d] : in'[d][i] = in[d][j])
                                     \/ in'[d][i] = m
        BY <1>0, <2>1, <2>4, AppendedFrom
      <4> QED
        BY <2>6, <4>1, SnapshotFrom
    <3> QED
      BY <1>0, <1>a, <2>1, <3>1, HeirSame
  <2> QED
    BY <2>5, <2>6
<1>8. ASSUME NEW c \in Clients, HandleResync(c) PROVE HeirsUninformed'
  <2>1. UNCHANGED <<conn, joined, leader, late>> /\ in' = EmitTo(in, joined \ {c}, Resync)
    BY <1>8 DEF HandleResync
  <2>2. \A d \in Clients : unheard[d] => unheard'[d]
    BY <1>8 DEF HandleResync, TypeOK
  <2>3. \A d \in Clients : in'[d] = IF d \in joined \ {c} /\ conn[d] = "up"
                                    THEN Append(in[d], Resync) ELSE in[d]
    BY <2>1, OtherMsgs, EmitToEffect
  <2>4. ASSUME NEW d \in joined PROVE SentSnapshot(d)' => SentSnapshot(d)
    <3>1. \A i \in DOMAIN in'[d] : (\E j \in DOMAIN in[d] : in'[d][i] = in[d][j])
                                   \/ in'[d][i] = Resync
      BY <1>0, <2>3, OtherMsgs, AppendedFrom
    <3> QED
      BY <3>1, Different, SnapshotFrom
  <2> QED
    BY <1>0, <1>a, <2>1, <2>2, <2>4, HeirSame
<1>9. ASSUME NEW c \in Clients, HandleDisconnect(c) PROVE HeirsUninformed'
  <2>1. /\ conn[c] = "down" /\ c \in joined /\ joined' = joined \ {c}
        /\ UNCHANGED <<conn, late, unheard>>
    BY <1>9 DEF HandleDisconnect
  <2>2. CASE in' = in /\ leader' = leader
    <3>1. \A d \in joined : SentSnapshot(d)' => SentSnapshot(d)
      BY <2>2 DEF SentSnapshot
    <3> QED
      BY <1>0, <1>a, <2>1, <2>2, <3>1, HeirSame
  <2>3. CASE joined' = {}
    BY <1>a, <2>3
  <2>4. ASSUME leader = c, NEW l, in' = StatusToAll(in, joined \ {c}, l)
        PROVE  HeirsUninformed'
    <3>1. \A d \in Clients : in'[d] = IF d \in joined \ {c} /\ conn[d] = "up"
                                      THEN Append(in[d], Status(d = l)) ELSE in[d]
      BY <2>4, StatusToAllEffect
    <3>2. ASSUME NEW d \in joined PROVE SentSnapshot(d)' => SentSnapshot(d)
      <4>1. (d = l) \in BOOLEAN
        OBVIOUS
      <4>2. Status(d = l) \in Msgs /\ ~IsSnapshot(Status(d = l))
        BY <4>1, OtherMsgs, Different
      <4>3. \A i \in DOMAIN in'[d] : (\E j \in DOMAIN in[d] : in'[d][i] = in[d][j])
                                     \/ in'[d][i] = Status(d = l)
        BY <1>0, <3>1, <4>2, AppendedFrom
      <4> QED
        BY <4>2, <4>3, SnapshotFrom
    <3> QED
      BY <1>0, <1>a, <2>1, <2>4, <3>2 DEF Heir
  <2>5. \/ in' = in /\ leader' = leader
        \/ joined' = {}
        \/ leader = c /\ \E l \in joined \ {c} : in' = StatusToAll(in, joined \ {c}, l)
    BY <1>9 DEF HandleDisconnect
  <2> QED
    BY <2>2, <2>3, <2>4, <2>5
<1> QED
  BY <1>1, <1>2, <1>3, <1>4, <1>5, <1>6, <1>7, <1>8, <1>9 DEF Next, ClientStep, ServerStep

(* An informed leader is there, and was not sent the graph by another one. *)
LEMMA FounderUp ==
  ASSUME TypeOK, RoomShape, HeirsUninformed, Founded
  PROVE  /\ leader \in Clients /\ leader \in joined /\ conn[leader] = "up"
         /\ ~SentSnapshot(leader)
  BY DEF Founded, Informed, RoomShape, HeirsUninformed, TypeOK

(* A room is founded by the first who joins it, and by nobody else.        *)
LEMMA FoundedBefore ==
  ASSUME TypeOK, RoomShape, HeirsUninformed, Next, Founded'
  PROVE  \/ leader = None /\ \E c \in Clients : HandleJoin(c)
         \/ Founded /\ leader' = leader /\ conn'[leader] = "up"
<1>0. \A d \in joined : Heir(d) /\ d \in Clients /\ leader # None /\ leader \in joined
  BY LeaderJoined DEF HeirsUninformed, Heir
<1>a. leader' # None /\ ~late'[leader'] /\ ~unheard'[leader']
  BY DEF Founded, Informed
<1>b. leader # None => leader \in Clients /\ leader \in joined
  BY DEF RoomShape, TypeOK
<1>c. ASSUME leader' = leader, ~late[leader], ~unheard[leader], conn'[leader] = conn[leader]
      PROVE  Founded /\ leader' = leader /\ conn'[leader] = "up"
  <2>1. Founded
    BY <1>a, <1>c DEF Founded, Informed
  <2> QED
    BY <1>c, <2>1, FounderUp
<1>1. ASSUME NEW c \in Clients, Connect(c) PROVE Founded /\ leader' = leader /\ conn'[leader] = "up"
  <2>1. c \notin joined /\ leader' = leader
    BY <1>1 DEF Connect
  <2>2. \A d \in Clients \ {c} : conn'[d] = conn[d] /\ late'[d] = late[d] /\ unheard'[d] = unheard[d]
    BY <1>1 DEF Connect, TypeOK
  <2> QED
    BY <1>a, <1>b, <1>c, <2>1, <2>2
<1>2. ASSUME NEW c \in Clients, Drop(c) PROVE Founded /\ leader' = leader /\ conn'[leader] = "up"
  <2>1. leader' = leader /\ late' = late /\ \A d \in Clients : unheard'[d] = (unheard[d] \/ leader = c)
    BY <1>2 DEF Drop
  <2>2. \A d \in Clients \ {c} : conn'[d] = conn[d]
    BY <1>2 DEF Drop, TypeOK
  <2> QED
    BY <1>a, <1>b, <1>c, <2>1, <2>2
<1>3. ASSUME NEW c \in Clients, (\E x \in Edits : Edit(c, x)) \/ ApplyImport(c)
      PROVE  Founded /\ leader' = leader /\ conn'[leader] = "up"
  <2>1. leader' = leader /\ late' = late /\ conn' = conn
    BY <1>3 DEF Edit, ApplyImport
  <2>2. \A d \in Clients : unheard[d] => unheard'[d]
    BY <1>3 DEF Edit, ApplyImport, TypeOK
  <2> QED
    BY <1>a, <1>b, <1>c, <2>1, <2>2
<1>4. ASSUME NEW c \in Clients, OnStatus(c) \/ OnResyncRequest(c)
      PROVE  Founded /\ leader' = leader /\ conn'[leader] = "up"
  <2>1. UNCHANGED <<leader, late, conn, unheard>>
    BY <1>4 DEF OnStatus, OnResyncRequest
  <2> QED
    BY <1>a, <1>c, <2>1
<1>5. ASSUME NEW c \in Clients, OnGraphUpdate(c)
      PROVE  Founded /\ leader' = leader /\ conn'[leader] = "up"
  <2>1. UNCHANGED <<leader, conn, unheard>> /\ Receives(c, "graph")
    BY <1>5 DEF OnGraphUpdate
  <2>2. /\ late'[c] = (late[c] /\ ~Head(in[c]).flag)
        /\ \A d \in Clients \ {c} : late'[d] = late[d]
    BY <1>5 DEF OnGraphUpdate, TypeOK
  <2>3. CASE leader = c
    <3>1. ~SentSnapshot(c)
      BY <1>0, <1>a, <1>b, <2>1, <2>3 DEF Heir
    <3>2. 1 \in DOMAIN in[c] /\ Head(in[c]) = in[c][1] /\ Head(in[c]).kind = "graph"
      BY <2>1, ReceivesType
    <3>3. ~Head(in[c]).flag
      BY <3>1, <3>2 DEF SentSnapshot, IsSnapshot
    <3> QED
      BY <1>a, <1>c, <2>1, <2>2, <2>3, <3>3
  <2>4. CASE leader # c
    BY <1>a, <1>b, <1>c, <2>1, <2>2, <2>4
  <2> QED
    BY <2>3, <2>4
<1>6. ASSUME NEW c \in Clients, HandleJoin(c), leader # None
      PROVE  Founded /\ leader' = leader /\ conn'[leader] = "up"
  <2>1. UNCHANGED <<leader, conn, unheard>> /\ Join \in out[c]
    BY <1>6 DEF HandleJoin
  <2>2. c \notin joined
    BY <2>1, LeaderJoined, OtherMsgs DEF RoomShape, Connection
  <2>3. \A d \in Clients \ {c} : late'[d] = late[d]
    BY <1>6 DEF HandleJoin, TypeOK
  <2> QED
    BY <1>a, <1>b, <1>c, <2>1, <2>2, <2>3
<1>7. ASSUME NEW c \in Clients, (\E m \in out[c] : HandleGraph(c, m)) \/ HandleResync(c)
      PROVE  Founded /\ leader' = leader /\ conn'[leader] = "up"
  <2>1. UNCHANGED <<leader, late, conn>>
    BY <1>7 DEF HandleGraph, HandleResync
  <2>2. \A d \in Clients : unheard[d] => unheard'[d]
    BY <1>7 DEF HandleGraph, HandleResync, TypeOK
  <2> QED
    BY <1>a, <1>b, <1>c, <2>1, <2>2
<1>8. ASSUME NEW c \in Clients, HandleDisconnect(c)
      PROVE  Founded /\ leader' = leader /\ conn'[leader] = "up"
  <2>1. UNCHANGED <<late, conn, unheard>> /\ conn[c] = "down" /\ c \in joined
    BY <1>8 DEF HandleDisconnect
  <2>2. leader' = leader \/ (leader = c /\ leader' \in joined)
    BY <1>8, <1>a DEF HandleDisconnect
  <2>3. CASE leader = c /\ leader' \in joined
    BY <1>0, <1>a, <2>1, <2>3 DEF Heir
  <2> QED
    BY <1>a, <1>c, <2>1, <2>2, <2>3
<1> QED
  BY <1>1, <1>2, <1>3, <1>4, <1>5, <1>6, <1>7, <1>8 DEF Next, ClientStep, ServerStep

-----------------------------------------------------------------------------
(* What the leader knows and what the others know.                         *)

(* The parts of AgreeInv about a leader that founded the room.             *)
Core(l) == Leads(l) /\ \A c \in Clients : Relayed(l, c) /\ Reported(l, c) /\ Served(l, c)

(* They are all that is left to show.                                      *)
LEMMA CoreOf ==
  /\ FounderLeads /\ LeaderHears /\ FollowersHear /\ Founded => Core(leader)
  /\ \A l : leader' = l /\ (Founded' => Core(l)') => FounderLeads' /\ LeaderHears' /\ FollowersHear'
<1>1. FounderLeads /\ LeaderHears /\ FollowersHear /\ Founded => Core(leader)
  BY DEF Core, FounderLeads, LeaderHears, FollowersHear
<1>2. (Founded' => Core(leader)') => FounderLeads' /\ LeaderHears' /\ FollowersHear'
  BY DEF Core, FounderLeads, LeaderHears, FollowersHear
<1>3. ASSUME NEW l, leader' = l PROVE Core(l)' => Core(leader)'
  <2>1. Leads(l)' => Leads(leader)'
    BY <1>3 DEF Leads
  <2>2. Ahead(l)' = Ahead(leader)' /\ Leaving(l)' = Leaving(leader)'
    BY <1>3 DEF Ahead, Leaving
  <2>3. ASSUME NEW c PROVE /\ Relayed(l, c)' => Relayed(leader, c)'
                           /\ Reported(l, c)' => Reported(leader, c)'
    BY <2>2 DEF Relayed, Reported
  <2>4. \A i : ResyncAfter(l, i)' => ResyncAfter(leader, i)'
    BY <1>3 DEF ResyncAfter
  <2>5. ASSUME NEW c PROVE Covered(l, c)' => Covered(leader, c)'
    BY <1>3, <2>2, <2>4 DEF Covered
  <2>6. ASSUME NEW c PROVE Served(l, c)' => Served(leader, c)'
    BY <1>3, <2>5 DEF Served
  <2> QED
    BY <2>1, <2>3, <2>6 DEF Core
<1> QED
  BY <1>1, <1>2, <1>3

(* Who has nothing new, and whose leader has lost nothing.                 *)
LEMMA RelayedSame ==
  ASSUME NEW l, NEW c, Relayed(l, c), Ahead(l) \subseteq Ahead(l)',
         Parts(doc[c]) \subseteq Parts(doc'[c]),
         Ahead(c)' \subseteq Ahead(c) \cup Ahead(l)' \cup Parts(doc'[c])
  PROVE  Relayed(l, c)'
  BY DEF Relayed

(* Who has sent what it has.                                               *)
LEMMA ReportedSame ==
  ASSUME NEW l, NEW c, Reported(l, c), Relayed(l, c), Ahead(l) \subseteq Ahead(l)',
         c \in joined' => c \in joined, conn'[c] = conn[c], ~stray'[c] => ~stray[c],
         Leaving(c) \subseteq Leaving(c)' \cup Ahead(l)',
         conn[c] = "up" => Parts(doc'[c]) \subseteq Parts(doc[c]) \cup Ahead(c) \cup Leaving(c)'
  PROVE  Reported(l, c)'
  BY DEF Relayed, Reported

(* Who is served while nothing happens to the leader's messages.           *)
LEMMA ServedSame ==
  ASSUME NEW l, NEW d, Served(l, d), in'[l] = in[l],
         doc'[l] = doc[l] \/ Parts(doc'[l]) \subseteq Leaving(l)',
         Ahead(d) \cup Leaving(l) \subseteq Ahead(d)' \cup Leaving(l)',
         d \in joined' => d \in joined, conn'[d] = conn[d], ~unheard'[d] => ~unheard[d],
         ~unheard'[d] /\ Asking(d) => Asking(d)'
  PROVE  Served(l, d)'
<1>1. \A i : ResyncAfter(l, i)' <=> ResyncAfter(l, i)
  BY DEF ResyncAfter
<1>2. Covered(l, d) => Covered(l, d)'
  BY <1>1 DEF Covered
<1> QED
  BY <1>2 DEF Served

(* Nothing is emitted and nothing arrives.                                 *)
LEMMA CoreStill ==
  ASSUME TypeOK, NEW l \in Clients, Core(l), doc' = doc, conn'[l] = "up", l \in joined',
         isLeader'[l] = isLeader[l],
         \A d \in Clients : in'[d] = in[d] \/ (in'[d] = <<>> /\ conn'[d] # "up"),
         \A d \in Clients : d \in joined' /\ conn'[d] = "up" =>
            /\ d \in joined /\ conn[d] = "up" /\ out'[d] = out[d] /\ stray'[d] = stray[d]
            /\ ~unheard'[d] => ~unheard[d] /\ pending'[d] = pending[d]
  PROVE  Core(l)'
<1>1. in'[l] = in[l] /\ Ahead(l)' = Ahead(l)
  BY AheadSame
<1>2. Leads(l)'
  BY <1>1 DEF Core, Leads
<1>3. ASSUME NEW d \in Clients PROVE Relayed(l, d)'
  <2>1. Ahead(d)' \subseteq Ahead(d)
    <3>1. \A p : p \in Ahead(d)' => p \in Ahead(d)
      <4>1. CASE in'[d] = in[d]
        BY <4>1, AheadSame
      <4>2. CASE in'[d] = <<>>
        BY <4>2, AheadParts
      <4> QED
        BY <4>1, <4>2
    <3> QED
      BY <3>1
  <2> QED
    BY <1>1, <2>1 DEF Core, Relayed
<1>4. ASSUME NEW d \in Clients, d \in joined', conn'[d] = "up"
      PROVE  /\ Leaving(d)' = Leaving(d) /\ Ahead(d)' = Ahead(d) /\ Reported(l, d)'
             /\ ~unheard'[d] => (Asking(d)' <=> Asking(d))
  <2>1. in'[d] = in[d] /\ out'[d] = out[d]
    BY <1>4
  <2>2. Leaving(d)' = Leaving(d)
    BY <2>1 DEF Leaving
  <2>3. Ahead(d)' = Ahead(d)
    BY <2>1, AheadSame
  <2> QED
    BY <1>1, <1>4, <2>1, <2>2, <2>3 DEF Core, Reported, Asking
<1>5. ASSUME NEW d \in Clients PROVE Reported(l, d)'
  BY <1>4 DEF Reported
<1>6. ASSUME NEW d \in Clients PROVE Served(l, d)'
  <2> SUFFICES ASSUME d \in joined', d # l, conn'[d] = "up" PROVE Served(l, d)'
    BY DEF Served
  <2>1. Leaving(l)' = Leaving(l)
    BY <1>4
  <2> QED
    BY <1>1, <1>4, <2>1, ServedSame DEF Core
<1> QED
  BY <1>2, <1>3, <1>5, <1>6 DEF Core

(* Connections, frames and sessions that end.                              *)
LEMMA CoreQuiet ==
  ASSUME TypeOK, NEW c \in Clients, NEW l \in joined, l = leader, leader' = leader, Core(l),
         conn'[l] = "up",
         Connect(c) \/ Drop(c) \/ ApplyImport(c) \/ HandleDisconnect(c)
  PROVE  Core(l)'
<1>0. l \in Clients
  BY DEF TypeOK
<1>1. CASE Connect(c)
  <2>1. c \notin joined /\ UNCHANGED <<doc, isLeader, in, joined>>
    BY <1>1 DEF Connect
  <2>2. \A d \in Clients \ {c} : /\ conn'[d] = conn[d] /\ out'[d] = out[d] /\ stray'[d] = stray[d]
                                 /\ pending'[d] = pending[d] /\ unheard'[d] = unheard[d]
    BY <1>1 DEF Connect, TypeOK
  <2> QED
    BY <1>0, <2>1, <2>2, CoreStill
<1>2. CASE Drop(c)
  <2>1. UNCHANGED <<doc, joined, stray>> /\ conn'[c] = "down" /\ in'[c] = <<>>
    BY <1>2 DEF Drop, TypeOK
  <2>2. \A d \in Clients \ {c} : /\ conn'[d] = conn[d] /\ out'[d] = out[d] /\ in'[d] = in[d]
                                 /\ pending'[d] = pending[d] /\ isLeader'[d] = isLeader[d]
    BY <1>2 DEF Drop, TypeOK
  <2>3. \A d \in Clients : unheard[d] => unheard'[d]
    BY <1>2 DEF Drop
  <2> QED
    BY <1>0, <2>1, <2>2, <2>3, CoreStill
<1>3. CASE ApplyImport(c)
  <2>1. UNCHANGED <<conn, doc, isLeader, out, in, joined, stray>>
    BY <1>3 DEF ApplyImport
  <2>2. \A d \in Clients : ~unheard'[d] => ~unheard[d] /\ pending'[d] = pending[d]
    BY <1>3 DEF ApplyImport, TypeOK
  <2> QED
    BY <1>0, <2>1, <2>2, CoreStill
<1>4. CASE HandleDisconnect(c)
  <2>1. /\ UNCHANGED <<conn, doc, isLeader, pending, out, stray, unheard>>
        /\ joined' = joined \ {c} /\ conn[c] = "down"
    BY <1>4 DEF HandleDisconnect
  <2>2. leader # c
    BY <2>1
  <2>3. in' = in
    BY <1>4, <2>2 DEF HandleDisconnect
  <2> QED
    BY <1>0, <2>1, <2>2, <2>3, CoreStill
<1> QED
  BY <1>1, <1>2, <1>3, <1>4

(* A client that changes its document sends it, or had it coming from the  *)
(* leader's side: what the leader hears is still all.                      *)
LEMMA HearsOf ==
  ASSUME NEW l \in Clients, NEW c \in Clients, Core(l),
         UNCHANGED <<conn, joined, stray>>,
         Parts(doc[c]) \subseteq Parts(doc'[c]), Ahead(c)' = Ahead(c) \cup Parts(doc'[c]),
         \A d \in Clients \ {c} : Ahead(d)' = Ahead(d) /\ doc'[d] = doc[d],
         \A d \in Clients : Leaving(d) \subseteq Leaving(d)',
         conn[c] = "up" => Parts(doc'[c]) \subseteq Parts(doc[c]) \cup Ahead(c) \cup Leaving(c)'
  PROVE  \A d \in Clients : Ahead(d) \subseteq Ahead(d)' /\ Relayed(l, d)' /\ Reported(l, d)'
<1>1. \A d \in Clients : Ahead(d) \subseteq Ahead(d)'
  OBVIOUS
<1>2. ASSUME NEW d \in Clients PROVE Relayed(l, d)'
  <2>1. Relayed(l, d) /\ Ahead(l) \subseteq Ahead(l)' /\ Parts(doc[d]) \subseteq Parts(doc'[d])
    BY <1>1 DEF Core
  <2>2. Ahead(d)' \subseteq Ahead(d) \cup Ahead(l)' \cup Parts(doc'[d])
    OBVIOUS
  <2> QED
    BY <2>1, <2>2, RelayedSame
<1>3. ASSUME NEW d \in Clients PROVE Reported(l, d)'
  <2>1. Relayed(l, d) /\ Reported(l, d) /\ Ahead(l) \subseteq Ahead(l)'
    BY <1>1 DEF Core
  <2>2. /\ Leaving(d) \subseteq Leaving(d)' \cup Ahead(l)'
        /\ conn[d] = "up" => Parts(doc'[d]) \subseteq Parts(doc[d]) \cup Ahead(d) \cup Leaving(d)'
    OBVIOUS
  <2> QED
    BY <2>1, <2>2, ReportedSame
<1> QED
  BY <1>1, <1>2, <1>3

(* What is emitted is on its way, and nothing else is lost from it.        *)
LEMMA LeavingKept ==
  ASSUME NEW c, NEW msgs, out'[c] = out[c] \cup msgs \/ out'[c] = out[c],
         \A d \in Clients \ {c} : out'[d] = out[d]
  PROVE  \A d \in Clients : Leaving(d) \subseteq Leaving(d)'
<1>1. ASSUME NEW d \in Clients PROVE \A p \in Leaving(d) : p \in Leaving(d)'
  <2>1. out[d] \subseteq out'[d]
    OBVIOUS
  <2> QED
    BY <2>1, LeavingParts
<1> QED
  BY <1>1

(* The user changes the graph: the whole document is sent.                 *)
LEMMA CoreEdit ==
  ASSUME TypeOK, NEW c \in Clients, NEW l \in Clients, leader' = leader, Core(l),
         conn[l] = "up", NEW x \in Edits, Edit(c, x)
  PROVE  Core(l)'
<1> DEFINE msgs == {Update(Edited(c, x))} \cup
                   (IF Seeded(c) # doc[c] THEN {Update(Seeded(c))} ELSE {})
<1>1. /\ Emit(c, msgs) /\ doc' = [doc EXCEPT ![c] = Edited(c, x)]
      /\ UNCHANGED <<conn, isLeader, pending, in, joined, stray, unheard>>
  BY DEF Edit, Edited
<1>2. /\ Seeded(c) \in Docs /\ Edited(c, x) \in Docs
      /\ Parts(doc[c]) \subseteq Parts(Seeded(c))
      /\ Parts(Seeded(c)) \subseteq Parts(Edited(c, x))
  BY SeededType, EditedType, PartsGrow
<1>3. doc'[c] = Edited(c, x) /\ \A d \in Clients \ {c} : doc'[d] = doc[d]
  BY <1>1 DEF TypeOK
<1>4. /\ msgs \in SUBSET Msgs /\ Update(Edited(c, x)) \in msgs
      /\ Update(Edited(c, x)).doc = doc'[c] /\ Update(Edited(c, x)).kind = "graph"
  BY <1>2, <1>3, GraphMsgs
<1> HIDE DEF msgs
<1>5. /\ conn[c] = "up" => out'[c] = out[c] \cup msgs
      /\ conn[c] # "up" => out'[c] = out[c]
      /\ \A d \in Clients \ {c} : out'[d] = out[d]
  BY <1>1, <1>4, EmitEffect
<1>6. conn[c] = "up" => Parts(doc'[c]) \subseteq Leaving(c)'
  BY <1>4, <1>5, LeavingSent
<1>7. \A d \in Clients : Leaving(d) \subseteq Leaving(d)'
  BY <1>5, LeavingKept
<1>8. Parts(doc[c]) \subseteq Parts(doc'[c])
  BY <1>2, <1>3
<1>9. Ahead(c)' = Ahead(c) \cup Parts(doc'[c]) /\ \A d \in Clients \ {c} : Ahead(d)' = Ahead(d)
  BY <1>1, <1>3, <1>8, AheadGrown, AheadSame
<1>10. \A d \in Clients : Ahead(d) \subseteq Ahead(d)' /\ Relayed(l, d)' /\ Reported(l, d)'
  BY <1>1, <1>3, <1>6, <1>7, <1>8, <1>9, HearsOf
<1>11. Leads(l)'
  BY <1>1 DEF Core, Leads
<1>12. ASSUME NEW d \in Clients PROVE Served(l, d)'
  <2>1. doc'[l] = doc[l] \/ Parts(doc'[l]) \subseteq Leaving(l)'
    BY <1>3, <1>6
  <2>2. Asking(d) => Asking(d)'
    <3>1. out[d] \subseteq out'[d]
      BY <1>5
    <3> QED
      BY <1>1, <3>1 DEF Asking
  <2>3. Ahead(d) \cup Leaving(l) \subseteq Ahead(d)' \cup Leaving(l)'
    BY <1>7, <1>10
  <2> QED
    BY <1>1, <2>1, <2>2, <2>3, ServedSame DEF Core
<1> QED
  BY <1>10, <1>11, <1>12 DEF Core

(* A request that is behind others moves up.                               *)
LEMMA ResyncTaken ==
  ASSUME TypeOK, NEW c \in Clients, NEW kind, Receives(c, kind), in'[c] = Tail(in[c])
  PROVE  /\ \A i \in Nat : ResyncAfter(c, i + 1) => ResyncAfter(c, i)'
         /\ kind # "resync" /\ ResyncAfter(c, 0) => ResyncAfter(c, 0)'
<1>1. /\ in[c][1].kind = kind
      /\ \A j \in DOMAIN in[c] : j = 1 \/ (/\ j - 1 \in DOMAIN in'[c] /\ j \in Nat \ {0}
                                           /\ in'[c][j - 1] = in[c][j])
  BY ReceivesType
<1>2. ASSUME NEW i \in Nat, NEW j \in DOMAIN in[c], j > i + 1, in[c][j].kind = "resync"
      PROVE  ResyncAfter(c, i)'
  <2>1. j # 1
    BY <1>2
  <2>2. j - 1 \in DOMAIN in'[c] /\ j \in Nat \ {0} /\ in'[c][j - 1].kind = "resync"
    BY <1>1, <1>2, <2>1
  <2>3. j - 1 > i
    BY <1>2, <2>2
  <2> QED
    BY <2>2, <2>3 DEF ResyncAfter
<1>3. ASSUME kind # "resync", ResyncAfter(c, 0) PROVE ResyncAfter(c, 0)'
  <2>1. PICK j \in DOMAIN in[c] : j > 0 /\ in[c][j].kind = "resync"
    BY <1>3 DEF ResyncAfter
  <2>2. j # 1
    BY <1>1, <1>3, <2>1
  <2>3. j > 0 + 1
    <3>1. j \in Nat \ {0}
      BY <1>1, <2>2
    <3> QED
      BY <2>2, <3>1
  <2> QED
    BY <1>2, <2>1, <2>3
<1> QED
  BY <1>2, <1>3 DEF ResyncAfter

(* The leader handles a message: who was served is served.                 *)
LEMMA CoveredTaken ==
  ASSUME TypeOK, NEW l \in Clients, NEW kind, Receives(l, kind), in'[l] = Tail(in[l]),
         NEW d, Covered(l, d), Ahead(d) \subseteq Ahead(d)', Leaving(l) \subseteq Leaving(l)',
         Parts(doc'[l]) \subseteq Ahead(d)' \cup Leaving(l)' \/ ResyncAfter(l, 0)'
  PROVE  Covered(l, d)'
<1> SUFFICES ASSUME NEW i \in DOMAIN in'[l], in'[l][i].kind = "graph"
             PROVE  \/ Parts(in'[l][i].doc) \subseteq Ahead(d)' \cup Leaving(l)'
                    \/ ResyncAfter(l, i)'
  BY DEF Covered
<1>1. i \in Nat /\ i + 1 \in DOMAIN in[l] /\ in'[l][i] = in[l][i + 1]
  <2>1. \A k \in DOMAIN Tail(in[l]) :
           k \in Nat \ {0} /\ k + 1 \in DOMAIN in[l] /\ Tail(in[l])[k] = in[l][k + 1]
    BY ReceivesType
  <2> QED
    BY <2>1
<1>2. \/ Parts(in[l][i + 1].doc) \subseteq Ahead(d) \cup Leaving(l)
      \/ ResyncAfter(l, i + 1)
  BY <1>1 DEF Covered
<1> QED
  BY <1>1, <1>2, ResyncTaken

(* A leader that handles a message leads, or is still to be told so.       *)
LEMMA LeadsTaken ==
  ASSUME TypeOK, NEW l \in Clients, NEW kind, Receives(l, kind), in'[l] = Tail(in[l]),
         Leads(l), kind = "status" => isLeader'[l] = Head(in[l]).flag,
         kind # "status" => isLeader'[l] = isLeader[l]
  PROVE  Leads(l)' /\ (kind # "status" => isLeader[l])
<1>1. /\ 1 \in DOMAIN in[l] /\ Head(in[l]) = in[l][1] /\ Head(in[l]).kind = kind
      /\ \A k \in DOMAIN in'[l] : k + 1 \in DOMAIN in[l] /\ in'[l][k] = in[l][k + 1]
  BY ReceivesType
<1>2. isLeader'[l] /\ (kind # "status" => isLeader[l])
  BY <1>1 DEF Leads
<1>3. \A k \in DOMAIN in'[l] : in'[l][k].kind = "status" => in'[l][k].flag
  <2> TAKE k \in DOMAIN in'[l]
  <2>1. k + 1 \in DOMAIN in[l] /\ in'[l][k] = in[l][k + 1]
    BY <1>1
  <2> QED
    BY <2>1 DEF Leads
<1> QED
  BY <1>2, <1>3 DEF Leads

(* A role that a client is still to be told stays on its way.              *)
LEMMA StatusTaken ==
  ASSUME TypeOK, NEW c \in Clients, NEW kind, Receives(c, kind), in'[c] = Tail(in[c]),
         kind # "status", \E i \in DOMAIN in[c] : in[c][i].kind = "status"
  PROVE  \E i \in DOMAIN in'[c] : in'[c][i].kind = "status"
<1>1. PICK i \in DOMAIN in[c] : in[c][i].kind = "status"
  OBVIOUS
<1>2. /\ in[c][1].kind = kind
      /\ \A j \in DOMAIN in[c] : j = 1 \/ (j - 1 \in DOMAIN in'[c] /\ in'[c][j - 1] = in[c][j])
  BY ReceivesType
<1>3. i # 1
  BY <1>1, <1>2
<1>4. i - 1 \in DOMAIN in'[c] /\ in'[c][i - 1] = in[c][i]
  BY <1>2, <1>3
<1> QED
  BY <1>1, <1>4

(* A leader that is asked for the graph sends it.                          *)
LEMMA LeaderAnswers ==
  ASSUME TypeOK, NEW c \in Clients, OnResyncRequest(c), isLeader[c]
  PROVE  Parts(doc'[c]) \subseteq Leaving(c)'
<1>1. /\ Receives(c, "resync") /\ Emit(c, ResyncMsgs(c)) /\ doc' = [doc EXCEPT ![c] = Seeded(c)]
  BY DEF OnResyncRequest, ResyncMsgs
<1>2. conn[c] = "up" /\ doc'[c] = Seeded(c) /\ Seeded(c) \in Docs /\ ResyncMsgs(c) \in SUBSET Msgs
  BY <1>1, ReceivesType, SeededType, AnswerTypes DEF TypeOK
<1>3. out'[c] = out[c] \cup ResyncMsgs(c)
  BY <1>1, <1>2, EmitEffect
<1>4. /\ Snapshot(Seeded(c)) \in ResyncMsgs(c) /\ Snapshot(Seeded(c)).kind = "graph"
      /\ Snapshot(Seeded(c)).doc = Seeded(c)
  BY <1>2, GraphMsgs DEF ResyncMsgs
<1> QED
  BY <1>2, <1>3, <1>4, LeavingSent

(* A client that is told its role while its request is pending makes it.   *)
LEMMA FollowerAsks ==
  ASSUME TypeOK, RoomShape, NEW c \in Clients, OnStatus(c), leader # c, pending[c]
  PROVE  Resync \in out'[c]
<1>1. Receives(c, "status") /\ Emit(c, StatusMsgs(c))
  BY DEF OnStatus, StatusMsgs
<1>2. conn[c] = "up" /\ 1 \in DOMAIN in[c] /\ Head(in[c]) = in[c][1] /\ Head(in[c]).kind = "status"
  BY <1>1, ReceivesType
<1>3. ~Head(in[c]).flag
  BY <1>2 DEF RoomShape, Role
<1>4. StatusMsgs(c) = {Resync}
  BY <1>3 DEF StatusMsgs
<1> QED
  BY <1>1, <1>2, <1>4, EmitEffect, OtherMsgs

(* A client is told its role or asked for the graph.                       *)
LEMMA CoreAnswer ==
  ASSUME TypeOK, RoomShape, NEW c \in Clients, NEW l \in Clients, l = leader, Core(l),
         OnStatus(c) \/ OnResyncRequest(c)
  PROVE  Core(l)'
<1>1. UNCHANGED <<conn, joined, leader, stray, unheard>> /\ in' = [in EXCEPT ![c] = Tail(@)]
  BY DEF OnStatus, OnResyncRequest
<1>2. PICK kind : /\ Receives(c, kind)
                  /\ (OnStatus(c) /\ kind = "status") \/ (OnResyncRequest(c) /\ kind = "resync")
  BY DEF OnStatus, OnResyncRequest
<1>3. in'[c] = Tail(in[c]) /\ \A d \in Clients \ {c} : in'[d] = in[d]
  BY <1>1 DEF TypeOK
<1>4. /\ \A d \in Clients \ {c} : isLeader'[d] = isLeader[d] /\ pending'[d] = pending[d]
      /\ kind = "status" => isLeader'[c] = Head(in[c]).flag
      /\ kind # "status" => isLeader'[c] = isLeader[c] /\ pending'[c] = pending[c]
  BY <1>2 DEF OnStatus, OnResyncRequest, TypeOK
<1>5. PICK msgs \in SUBSET Msgs :
         /\ conn[c] = "up" /\ out'[c] = out[c] \cup msgs
         /\ Parts(doc[c]) \subseteq Parts(doc'[c])
         /\ doc'[c] = doc[c] \/ Parts(doc'[c]) \subseteq Leaving(c)'
         /\ \A d \in Clients \ {c} : doc'[d] = doc[d] /\ out'[d] = out[d]
  BY Answers
<1>6. Ahead(c)' = Ahead(c) \cup Parts(doc'[c]) /\ \A d \in Clients \ {c} : Ahead(d)' = Ahead(d)
  BY <1>2, <1>3, <1>5, AheadTaken, AheadSame
<1>7. \A d \in Clients : Leaving(d) \subseteq Leaving(d)'
  BY <1>5, LeavingKept
<1>8. \A d \in Clients : Ahead(d) \subseteq Ahead(d)' /\ Relayed(l, d)' /\ Reported(l, d)'
  BY <1>1, <1>5, <1>6, <1>7, HearsOf
<1>9. Leads(l)' /\ (l = c /\ kind # "status" => isLeader[l])
  <2>1. CASE l = c
    BY <1>2, <1>3, <1>4, <2>1, LeadsTaken DEF Core
  <2>2. CASE l # c
    BY <1>3, <1>4, <2>2 DEF Core, Leads
  <2> QED
    BY <2>1, <2>2
<1>10. ASSUME NEW d \in Clients PROVE Served(l, d)'
  <2>1. CASE l = c /\ d # l
    <3>1. Asking(d)' <=> Asking(d)
      BY <1>3, <1>4, <1>5, <2>1 DEF Asking
    <3>2. ASSUME Covered(l, d)
          PROVE  Parts(doc'[l]) \subseteq Ahead(d)' \cup Leaving(l)' \/ ResyncAfter(l, 0)'
      <4>1. CASE kind = "status"
        <5>1. Parts(doc[l]) \subseteq Ahead(d)' \cup Leaving(l)' \/ ResyncAfter(l, 0)'
          <6>1. ResyncAfter(l, 0) => ResyncAfter(l, 0)'
            BY <1>2, <1>3, <2>1, <4>1, ResyncTaken
          <6> QED
            BY <1>7, <1>8, <3>2, <6>1 DEF Covered
        <5> QED
          BY <1>5, <2>1, <5>1
      <4>2. CASE kind # "status"
        <5>1. OnResyncRequest(c) /\ isLeader[c]
          BY <1>2, <1>9, <2>1, <4>2
        <5> QED
          BY <2>1, <5>1, LeaderAnswers
      <4> QED
        BY <4>1, <4>2
    <3>3. Covered(l, d) => Covered(l, d)'
      BY <1>2, <1>3, <1>7, <1>8, <2>1, <3>2, CoveredTaken
    <3> QED
      BY <1>1, <3>1, <3>3 DEF Core, Served
  <2>2. CASE l # c
    <3>1. ASSUME Asking(d), d # l PROVE Asking(d)'
      <4>1. CASE d # c
        BY <1>3, <1>4, <1>5, <3>1, <4>1 DEF Asking
      <4>2. CASE d = c /\ Resync \in out[c]
        BY <1>5, <4>2 DEF Asking
      <4>3. CASE d = c /\ pending[c] /\ kind = "status"
        <5>1. OnStatus(c) /\ leader # c
          BY <1>2, <2>2, <4>3
        <5> QED
          BY <4>3, <5>1, FollowerAsks DEF Asking
      <4>4. CASE d = c /\ pending[c] /\ kind # "status" /\ \E i \in DOMAIN in[c] : in[c][i].kind = "status"
        <5>1. \E i \in DOMAIN in'[c] : in'[c][i].kind = "status"
          BY <1>2, <1>3, <4>4, StatusTaken
        <5> QED
          BY <1>4, <4>4, <5>1 DEF Asking
      <4> QED
        BY <3>1, <4>1, <4>2, <4>3, <4>4 DEF Asking
    <3>2. CASE d = l
      BY <3>2 DEF Served
    <3>3. CASE d # l
      <4>1. Served(l, d) /\ in'[l] = in[l] /\ doc'[l] = doc[l]
        BY <1>3, <1>5, <2>2 DEF Core
      <4>2. Ahead(d) \cup Leaving(l) \subseteq Ahead(d)' \cup Leaving(l)'
        BY <1>7, <1>8
      <4>3. joined' = joined /\ conn' = conn /\ unheard' = unheard
        BY <1>1
      <4> QED
        BY <3>1, <3>3, <4>1, <4>2, <4>3, ServedSame
    <3> QED
      BY <3>2, <3>3
  <2>3. CASE d = l
    BY <2>3 DEF Served
  <2> QED
    BY <2>1, <2>2, <2>3
<1> QED
  BY <1>8, <1>9, <1>10 DEF Core

(* A client imports a graph.                                               *)
LEMMA CoreImport ==
  ASSUME TypeOK, NEW c \in Clients, NEW l \in Clients, Core(l), OnGraphUpdate(c)
  PROVE  Core(l)'
<1>1. /\ UNCHANGED <<conn, joined, leader, stray, unheard, out, isLeader, pending>>
      /\ Receives(c, "graph")
  BY DEF OnGraphUpdate
<1>2. /\ in'[c] = Tail(in[c]) /\ doc'[c] = Merge(doc[c], Head(in[c]).doc)
      /\ \A d \in Clients \ {c} : in'[d] = in[d] /\ doc'[d] = doc[d]
  BY DEF OnGraphUpdate, TypeOK
<1>3. /\ Ahead(c)' = Ahead(c) /\ Parts(doc'[c]) = Parts(doc[c]) \cup Parts(Head(in[c]).doc)
      /\ \A d \in Clients \ {c} : Ahead(d)' = Ahead(d)
  BY <1>1, <1>2, AheadImported, AheadSame
<1>4. \A d \in Clients : Leaving(d)' = Leaving(d)
  BY <1>1 DEF Leaving
<1>5. Parts(doc'[c]) \subseteq Ahead(c)
  <2>1. \A p : p \in Parts(doc'[c]) => p \in Ahead(c)'
    BY AheadParts
  <2> QED
    BY <1>3, <2>1
<1>6. \A d \in Clients : Ahead(d) \subseteq Ahead(d)' /\ Relayed(l, d)' /\ Reported(l, d)'
  BY <1>1, <1>2, <1>3, <1>4, <1>5, HearsOf
<1>7. Leads(l)'
  <2>1. CASE l = c
    BY <1>1, <1>2, <2>1, LeadsTaken DEF Core
  <2>2. CASE l # c
    BY <1>1, <1>2, <2>2 DEF Core, Leads
  <2> QED
    BY <2>1, <2>2
<1>8. ASSUME NEW d \in Clients PROVE Served(l, d)'
  <2>1. CASE l = c /\ d # l
    <3>1. Asking(d)' <=> Asking(d)
      BY <1>1, <1>2, <2>1 DEF Asking
    <3>2. ASSUME Covered(l, d)
          PROVE  Parts(doc'[l]) \subseteq Ahead(d)' \cup Leaving(l)' \/ ResyncAfter(l, 0)'
      <4>1. 1 \in DOMAIN in[l] /\ Head(in[l]) = in[l][1] /\ in[l][1].kind = "graph"
        BY <1>1, <2>1, ReceivesType
      <4>2. Parts(Head(in[l]).doc) \subseteq Ahead(d) \cup Leaving(l) \/ ResyncAfter(l, 1)
        BY <3>2, <4>1 DEF Covered
      <4>3. Parts(doc[l]) \subseteq Ahead(d) \cup Leaving(l) \/ ResyncAfter(l, 0)
        BY <3>2 DEF Covered
      <4>4. ResyncAfter(l, 0 + 1) => ResyncAfter(l, 0)'
        BY <1>1, <1>2, <2>1, ResyncTaken
      <4>5. ResyncAfter(l, 0) => ResyncAfter(l, 0)'
        BY <1>1, <1>2, <2>1, ResyncTaken
      <4>6. 0 + 1 = 1
        OBVIOUS
      <4> QED
        BY <1>3, <1>4, <1>6, <2>1, <4>2, <4>3, <4>4, <4>5, <4>6
    <3>3. Covered(l, d) => Covered(l, d)'
      BY <1>1, <1>2, <1>4, <1>6, <2>1, <3>2, CoveredTaken
    <3> QED
      BY <1>1, <3>1, <3>3 DEF Core, Served
  <2>2. CASE l # c
    <3>1. Asking(d) => Asking(d)'
      <4>1. CASE d # c
        BY <1>1, <1>2, <4>1 DEF Asking
      <4>2. CASE d = c
        BY <1>1, <1>2, <4>2, StatusTaken DEF Asking
      <4> QED
        BY <4>1, <4>2
    <3>2. Served(l, d) /\ in'[l] = in[l] /\ doc'[l] = doc[l]
      BY <1>2, <2>2 DEF Core
    <3>3. Ahead(d) \cup Leaving(l) \subseteq Ahead(d)' \cup Leaving(l)'
      BY <1>4, <1>6
    <3>4. joined' = joined /\ conn' = conn /\ unheard' = unheard
      BY <1>1
    <3> QED
      BY <3>1, <3>2, <3>3, <3>4, ServedSame
  <2>3. CASE d = l
    BY <2>3 DEF Served
  <2> QED
    BY <2>1, <2>2, <2>3
<1> QED
  BY <1>6, <1>7, <1>8 DEF Core

(* What was ahead of a client is not changed by what comes behind it.      *)
LEMMA BehindKept ==
  ASSUME TypeOK, NEW d \in Clients, NEW m \in Msgs, in'[d] = in[d] \/ in'[d] = Append(in[d], m)
  PROVE  /\ \A i : ResyncAfter(d, i) => ResyncAfter(d, i)'
         /\ (\E i \in DOMAIN in[d] : in[d][i].kind = "status") =>
               \E i \in DOMAIN in'[d] : in'[d][i].kind = "status"
         /\ m.kind = "resync" /\ in'[d] = Append(in[d], m) =>
               ResyncAfter(d, 0)' /\ \A i \in DOMAIN in'[d] : in'[d][i].kind = "graph" => ResyncAfter(d, i)'
         /\ m.kind # "status" /\ isLeader'[d] = isLeader[d] /\ Leads(d) => Leads(d)'
<1>1. in[d] \in Seq(Msgs)
  BY DEF TypeOK
<1>2. CASE in'[d] = in[d]
  <2>1. \A i : ResyncAfter(d, i) => ResyncAfter(d, i)'
    BY <1>2 DEF ResyncAfter
  <2>2. in'[d] # Append(in[d], m)
    <3>1. Len(Append(in[d], m)) = Len(in[d]) + 1 /\ Len(in[d]) \in Nat
      BY <1>1
    <3> QED
      BY <1>2, <3>1
  <2> QED
    BY <1>2, <2>1, <2>2 DEF Leads
<1>3. CASE in'[d] = Append(in[d], m)
  <2>1. /\ \A i \in DOMAIN in'[d] : \/ i \in DOMAIN in[d] /\ in'[d][i] = in[d][i]
                                    \/ i = Len(in[d]) + 1 /\ in'[d][i] = m
        /\ \A i \in DOMAIN in[d] : /\ i \in DOMAIN in'[d] /\ in'[d][i] = in[d][i]
                                   /\ Len(in[d]) + 1 > i
        /\ Len(in[d]) + 1 \in DOMAIN in'[d] /\ in'[d][Len(in[d]) + 1] = m
        /\ Len(in[d]) + 1 > 0
        /\ in'[d] # <<>>
        /\ in[d] # <<>> => Head(in'[d]) = Head(in[d])
    BY <1>1, <1>3, AppendAt
  <2>2. \A i : ResyncAfter(d, i) => ResyncAfter(d, i)'
    BY <2>1 DEF ResyncAfter
  <2>3. m.kind = "resync" =>
           ResyncAfter(d, 0)' /\ \A i \in DOMAIN in'[d] : in'[d][i].kind = "graph" => ResyncAfter(d, i)'
    BY <2>1 DEF ResyncAfter
  <2>4. m.kind # "status" /\ isLeader'[d] = isLeader[d] /\ Leads(d) => Leads(d)'
    BY <2>1 DEF Leads
  <2> QED
    BY <2>1, <2>2, <2>3, <2>4
<1> QED
  BY <1>2, <1>3

(* A client joins a room that has a leader.                                *)
LEMMA CoreJoin ==
  ASSUME TypeOK, RoomShape, NEW c \in Clients, NEW l \in joined, l = leader, Core(l), HandleJoin(c),
         leader # None
  PROVE  Core(l)'
<1>1. /\ UNCHANGED <<conn, doc, isLeader, pending, stray, unheard>> /\ joined' = joined \cup {c}
      /\ in' = EmitTo(in, {c}, Status(leader = c)) /\ Join \in out[c]
  BY DEF HandleJoin
<1>2. out'[c] = out[c] \ {Join} /\ \A d \in Clients \ {c} : out'[d] = out[d]
  BY DEF HandleJoin, TypeOK
<1>3. c \notin joined /\ conn[c] = "up" /\ l # c /\ l \in Clients
  BY <1>1, LeaderJoined, OtherMsgs DEF RoomShape, Connection
<1>4. (leader = c) \in BOOLEAN
  OBVIOUS
<1>5. Status(leader = c) \in Msgs /\ Status(leader = c).kind = "status"
  BY <1>4, OtherMsgs
<1>6. \A d \in Clients : in'[d] = IF d \in {c} /\ conn[d] = "up"
                                  THEN Append(in[d], Status(leader = c)) ELSE in[d]
  BY <1>1, <1>5, EmitToEffect
<1>7. in'[c] = Append(in[c], Status(leader = c)) /\ \A d \in Clients \ {c} : in'[d] = in[d]
  BY <1>3, <1>6
<1>8. \A d \in Clients : Ahead(d)' = Ahead(d)
  BY <1>1, <1>5, <1>7, AheadSame, AheadAppended
<1>9. \A d \in Clients : Leaving(d)' = Leaving(d)
  <2>1. ASSUME NEW d \in Clients, NEW p PROVE p \in Leaving(d)' <=> p \in Leaving(d)
    BY <1>2, OtherMsgs, LeavingParts
  <2> QED
    BY <2>1
<1>10. Leads(l)'
  BY <1>1, <1>3, <1>7 DEF Core, Leads
<1>11. ASSUME NEW d \in Clients PROVE Relayed(l, d)'
  BY <1>1, <1>3, <1>8, <1>11 DEF Core, Relayed
<1>12. ASSUME NEW d \in Clients PROVE Reported(l, d)'
  <2>1. CASE d = c
    <3>1. ~stray[c] => Parts(doc[c]) \subseteq Leaving(c)
      BY <1>3 DEF RoomShape, Newcomer
    <3> QED
      BY <1>1, <1>9, <2>1, <3>1 DEF Reported
  <2>2. CASE d # c
    <3>1. Reported(l, d) /\ Ahead(l)' = Ahead(l)
      BY <1>3, <1>8 DEF Core
    <3> QED
      BY <1>1, <1>9, <2>2, <3>1 DEF Reported
  <2> QED
    BY <2>1, <2>2
<1>13. ASSUME NEW d \in Clients PROVE Served(l, d)'
  <2>1. CASE d = c
    <3>1. pending[c] \/ unheard[c]
      BY <1>3 DEF RoomShape, Newcomer
    <3>2. \E i \in DOMAIN in'[c] : in'[c][i].kind = "status"
      <4>1. in[c] \in Seq(Msgs)
        BY DEF TypeOK
      <4> QED
        BY <1>5, <1>7, <4>1, AppendAt
    <3> QED
      BY <1>1, <2>1, <3>1, <3>2 DEF Served, Asking
  <2>2. CASE d # c
    <3>1. Asking(d) => Asking(d)'
      BY <1>1, <1>2, <1>7, <2>2 DEF Asking
    <3>2. Served(l, d) /\ in'[l] = in[l] /\ doc'[l] = doc[l] /\ (d \in joined' => d \in joined)
      BY <1>1, <1>3, <1>7, <2>2 DEF Core
    <3>3. Ahead(d) \cup Leaving(l) \subseteq Ahead(d)' \cup Leaving(l)'
      BY <1>3, <1>8, <1>9
    <3> QED
      BY <1>1, <3>1, <3>2, <3>3, ServedSame
  <2> QED
    BY <2>1, <2>2
<1> QED
  BY <1>10, <1>11, <1>12, <1>13 DEF Core

(* A request for the graph reaches the leader.                             *)
LEMMA CoreResync ==
  ASSUME TypeOK, RoomShape, NEW c \in Clients, NEW l \in joined, l = leader, Core(l), conn[l] = "up",
         HandleResync(c), c # l
  PROVE  Core(l)'
<1>1. /\ UNCHANGED <<conn, doc, isLeader, pending, joined, stray>>
      /\ in' = EmitTo(in, joined \ {c}, Resync) /\ l \in Clients
  BY DEF HandleResync, TypeOK
<1>2. out'[c] = out[c] \ {Resync} /\ \A d \in Clients \ {c} : out'[d] = out[d]
  BY DEF HandleResync, TypeOK
<1>3. \A d \in Clients : in'[d] = IF d \in joined \ {c} /\ conn[d] = "up"
                                  THEN Append(in[d], Resync) ELSE in[d]
  BY <1>1, OtherMsgs, EmitToEffect
<1>4. \A d \in Clients : Ahead(d)' = Ahead(d)
  BY <1>1, <1>3, OtherMsgs, AheadSame, AheadAppended
<1>5. \A d \in Clients : Leaving(d)' = Leaving(d)
  <2>1. ASSUME NEW d \in Clients, NEW p PROVE p \in Leaving(d)' <=> p \in Leaving(d)
    BY <1>2, OtherMsgs, LeavingParts
  <2> QED
    BY <2>1
<1>6. in'[l] = Append(in[l], Resync) /\ Leads(l)
  BY <1>1, <1>3 DEF Core
<1>7. /\ Leads(l)' /\ ResyncAfter(l, 0)'
      /\ \A i \in DOMAIN in'[l] : in'[l][i].kind = "graph" => ResyncAfter(l, i)'
  BY <1>1, <1>6, OtherMsgs, BehindKept
<1>8. ASSUME NEW d \in Clients PROVE Relayed(l, d)' /\ Reported(l, d)'
  BY <1>1, <1>4, <1>5, <1>8 DEF Core, Relayed, Reported
<1>9. ASSUME NEW d \in Clients PROVE Served(l, d)'
  BY <1>7 DEF Served, Covered
<1> QED
  BY <1>7, <1>8, <1>9 DEF Core

(* An update or a snapshot is relayed, or refused.                         *)
LEMMA CoreGraph ==
  ASSUME TypeOK, RoomShape, NEW c \in Clients, NEW l \in joined, l = leader, Core(l), conn[l] = "up",
         NEW m \in out[c], HandleGraph(c, m)
  PROVE  Core(l)'
<1>0. l \in Clients /\ m \in Msgs /\ Parts(m.doc) \subseteq Parts(doc[c])
  BY DEF TypeOK, RoomShape, Emitted
<1>1. UNCHANGED <<conn, doc, isLeader, pending, joined, unheard>> /\ m.kind = "graph"
  BY DEF HandleGraph
<1>2. \A d \in Clients \ {c} : out'[d] = out[d] /\ stray'[d] = stray[d]
  BY DEF HandleGraph, TypeOK
<1>3. CASE c \notin joined
  <2>1. in' = in
    BY <1>3 DEF HandleGraph
  <2> QED
    BY <1>0, <1>1, <1>2, <1>3, <2>1, CoreStill
<1>4. CASE c \in joined
  <2>1. in' = EmitTo(in, joined \ {c}, m)
    BY <1>4 DEF HandleGraph
  <2>2. out'[c] = out[c] \ {m} /\ stray'[c] = (stray[c] /\ m.doc # doc[c])
    BY <1>4 DEF HandleGraph, TypeOK
  <2>3. \A d \in Clients : in'[d] = IF d \in joined \ {c} /\ conn[d] = "up"
                                    THEN Append(in[d], m) ELSE in[d]
    BY <1>0, <2>1, EmitToEffect
  <2>4. \A d \in Clients : Ahead(d)' = Ahead(d) \cup (IF d \in joined \ {c} /\ conn[d] = "up"
                                                      THEN Parts(m.doc) ELSE {})
    BY <1>0, <1>1, <2>3, AheadSame, AheadAppended
  <2>5. \A d \in Clients : Parts(doc[d]) \subseteq Ahead(d)
    BY DEF Ahead
  <2>6. Parts(m.doc) \subseteq Ahead(l)'
    BY <1>0, <2>4, <2>5
  <2>7. \A d \in Clients : Leaving(d) \subseteq Leaving(d)' \cup Parts(m.doc)
                           /\ (d # c => Leaving(d)' = Leaving(d))
    <3>1. ASSUME NEW d \in Clients, NEW p \in Leaving(d) PROVE p \in Leaving(d)' \cup Parts(m.doc)
      <4>1. PICK n \in out[d] : n.kind = "graph" /\ p \in Parts(n.doc)
        BY LeavingParts
      <4>2. n \in out'[d] \/ n = m
        BY <1>2, <2>2
      <4> QED
        BY <4>1, <4>2, LeavingParts
    <3>2. ASSUME NEW d \in Clients, d # c PROVE Leaving(d)' = Leaving(d)
      BY <1>2, <3>2 DEF Leaving
    <3> QED
      BY <3>1, <3>2
  <2>8. \A d \in Clients : Ahead(d) \subseteq Ahead(d)'
    BY <2>4
  <2>9. Leads(l)'
    BY <1>0, <1>1, <2>3, BehindKept DEF Core
  <2>10. ASSUME NEW d \in Clients PROVE Relayed(l, d)'
    <3>1. Relayed(l, d) /\ Ahead(l) \subseteq Ahead(l)' /\ doc'[d] = doc[d]
      BY <1>0, <1>1, <2>8 DEF Core
    <3>2. Ahead(d)' \subseteq Ahead(d) \cup Ahead(l)'
      BY <2>4, <2>6
    <3> QED
      BY <3>1, <3>2, RelayedSame
  <2>11. ASSUME NEW d \in Clients PROVE Reported(l, d)'
    <3>1. CASE d = c /\ m.doc = doc[c]
      BY <1>1, <2>6, <3>1 DEF Reported
    <3>2. CASE ~(d = c /\ m.doc = doc[c])
      <4>1. ~stray'[d] => ~stray[d]
        BY <1>2, <2>2, <3>2
      <4>2. Reported(l, d) /\ Relayed(l, d) /\ Ahead(l) \subseteq Ahead(l)' /\ doc'[d] = doc[d]
        BY <1>0, <1>1, <2>8 DEF Core
      <4>3. Leaving(d) \subseteq Leaving(d)' \cup Ahead(l)'
        BY <2>6, <2>7
      <4> QED
        BY <1>1, <4>1, <4>2, <4>3, ReportedSame
    <3> QED
      BY <3>1, <3>2
  <2>12. ASSUME NEW d \in Clients, d \in joined, d # l, conn[d] = "up" PROVE Served(l, d)'
    <3>1. Asking(d) => Asking(d)'
      <4>1. Resync \in out[d] => Resync \in out'[d]
        BY <1>1, <1>2, <2>2, OtherMsgs
      <4>2. (\E i \in DOMAIN in[d] : in[d][i].kind = "status") =>
               \E i \in DOMAIN in'[d] : in'[d][i].kind = "status"
        BY <1>0, <2>3, BehindKept
      <4> QED
        BY <1>1, <4>1, <4>2 DEF Asking
    <3>2. Parts(m.doc) \subseteq Ahead(d)'
      BY <1>0, <2>4, <2>5, <2>12
    <3>3. Ahead(d) \cup Leaving(l) \subseteq Ahead(d)' \cup Leaving(l)'
      BY <1>0, <2>7, <2>8, <3>2
    <3>4. Covered(l, d) => Covered(l, d)'
      <4>1. \A i : ResyncAfter(l, i) => ResyncAfter(l, i)'
        BY <1>0, <2>3, BehindKept
      <4>2. ASSUME Covered(l, d), NEW i \in DOMAIN in'[l], in'[l][i].kind = "graph"
            PROVE  \/ Parts(in'[l][i].doc) \subseteq Ahead(d)' \cup Leaving(l)'
                   \/ ResyncAfter(l, i)'
        <5>1. CASE i \in DOMAIN in[l] /\ in'[l][i] = in[l][i]
          BY <3>3, <4>1, <4>2, <5>1 DEF Covered
        <5>2. CASE in'[l][i] = m
          BY <3>2, <5>2
        <5>3. in[l] \in Seq(Msgs) /\ (in'[l] = in[l] \/ in'[l] = Append(in[l], m))
          BY <1>0, <2>3 DEF TypeOK
        <5>4. (i \in DOMAIN in[l] /\ in'[l][i] = in[l][i]) \/ in'[l][i] = m
          BY <1>0, <5>3, AppendAt
        <5> QED
          BY <5>1, <5>2, <5>4
      <4> QED
        BY <1>1, <3>3, <4>1, <4>2 DEF Covered
    <3> QED
      BY <1>1, <3>1, <3>4 DEF Core, Served
  <2>13. ASSUME NEW d \in Clients PROVE Served(l, d)'
    BY <1>1, <2>12 DEF Served
  <2> QED
    BY <2>9, <2>10, <2>11, <2>13 DEF Core
<1> QED
  BY <1>3, <1>4

(* The first client of a room founds it.                                   *)
LEMMA CoreFounds ==
  ASSUME TypeOK, RoomShape, NEW c \in Clients, HandleJoin(c), leader = None
  PROVE  leader' = c /\ Core(c)'
<1>1. /\ UNCHANGED <<conn, doc>> /\ joined' = joined \cup {c} /\ leader' = c
      /\ in' = EmitTo(in, {c}, Status(TRUE)) /\ Join \in out[c]
  BY DEF HandleJoin
<1>2. joined = {} /\ (\A d \in Clients : in[d] = <<>>) /\ conn[c] = "up"
  BY <1>1, LeaderJoined, OtherMsgs DEF RoomShape
<1>3. Status(TRUE) \in Msgs /\ Status(TRUE).kind = "status" /\ Status(TRUE).flag
  BY OtherMsgs
<1>4. \A d \in Clients : in'[d] = IF d \in {c} /\ conn[d] = "up"
                                  THEN Append(in[d], Status(TRUE)) ELSE in[d]
  BY <1>1, <1>3, EmitToEffect
<1>5. \A d \in Clients : Ahead(d)' = Parts(doc'[d])
  <2>1. ASSUME NEW d \in Clients PROVE Ahead(d)' = Ahead(d)
    <3>1. CASE d = c
      <4>1. in'[d] = Append(in[d], Status(TRUE)) /\ doc'[d] = doc[d]
        BY <1>1, <1>2, <1>4, <3>1
      <4> QED
        BY <1>3, <4>1, AheadAppended
    <3>2. CASE d # c
      BY <1>1, <1>4, <3>2, AheadSame
    <3> QED
      BY <3>1, <3>2
  <2>2. ASSUME NEW d \in Clients PROVE Ahead(d) = Parts(doc[d])
    <3>1. DOMAIN in[d] = {}
      BY <1>2
    <3> QED
      BY <3>1 DEF Ahead
  <2> QED
    BY <1>1, <2>1, <2>2
<1>6. Leads(c)'
  <2>1. in'[c] = Append(in[c], Status(TRUE)) /\ in[c] = <<>> /\ in[c] \in Seq(Msgs)
    BY <1>2, <1>4 DEF TypeOK
  <2>2. /\ in'[c] # <<>> /\ Head(in'[c]) = Status(TRUE)
        /\ \A i \in DOMAIN in'[c] : in'[c][i] = Status(TRUE)
    <3>1. DOMAIN in[c] = {}
      BY <2>1
    <3>2. \A i \in DOMAIN in'[c] : (\E k \in DOMAIN in[c] : in'[c][i] = in[c][k])
                                   \/ in'[c][i] = Status(TRUE)
      BY <1>3, <2>1, AppendedFrom
    <3>3. in'[c] # <<>> /\ Head(in'[c]) = Status(TRUE)
      BY <1>3, <2>1, AppendAt
    <3> QED
      BY <3>1, <3>2, <3>3
  <2> QED
    BY <1>3, <2>2 DEF Leads
<1>7. ASSUME NEW d \in Clients PROVE Relayed(c, d)' /\ Reported(c, d)' /\ Served(c, d)'
  BY <1>1, <1>2, <1>5, <1>7 DEF Relayed, Reported, Served
<1> QED
  BY <1>1, <1>6, <1>7 DEF Core

(* Every step keeps what a founder and its room know.                      *)
LEMMA CoreStep ==
  ASSUME AgreeInv, Next, Founded'
  PROVE  \E l : leader' = l /\ Core(l)'
<1>0. TypeOK /\ RoomShape /\ HeirsUninformed /\ FounderLeads /\ LeaderHears /\ FollowersHear
  BY DEF AgreeInv
<1>1. CASE leader = None /\ \E c \in Clients : HandleJoin(c)
  BY <1>0, <1>1, CoreFounds
<1>2. CASE Founded /\ leader' = leader /\ conn'[leader] = "up"
  <2>1. PICK l \in Clients : l = leader
    BY <1>0, <1>2, FounderUp
  <2>2. /\ l \in joined /\ conn[l] = "up" /\ conn'[l] = "up" /\ leader # None
        /\ leader' = leader /\ ~unheard'[l]
    BY <1>0, <1>2, <2>1, FounderUp DEF Founded, Informed
  <2>3. Core(l)
    <3>1. Core(leader)
      BY <1>0, <1>2, CoreOf
    <3> QED
      BY <2>1, <3>1
  <2>4. ASSUME NEW c \in Clients, HandleResync(c) PROVE c # l
    BY <1>0, <2>1, <2>2, <2>4 DEF HandleResync, TypeOK
  <2>5. Core(l)'
    <3>1. ASSUME NEW c \in Clients,
                 Connect(c) \/ Drop(c) \/ ApplyImport(c) \/ HandleDisconnect(c)
          PROVE  Core(l)'
      BY <1>0, <2>1, <2>2, <2>3, <3>1, CoreQuiet
    <3>2. ASSUME NEW c \in Clients, NEW x \in Edits, Edit(c, x) PROVE Core(l)'
      BY <1>0, <2>1, <2>2, <2>3, <3>2, CoreEdit
    <3>3. ASSUME NEW c \in Clients, OnStatus(c) \/ OnResyncRequest(c) PROVE Core(l)'
      BY <1>0, <2>1, <2>3, <3>3, CoreAnswer
    <3>4. ASSUME NEW c \in Clients, OnGraphUpdate(c) PROVE Core(l)'
      BY <1>0, <2>1, <2>3, <3>4, CoreImport
    <3>5. ASSUME NEW c \in Clients, HandleJoin(c) PROVE Core(l)'
      BY <1>0, <2>1, <2>2, <2>3, <3>5, CoreJoin
    <3>6. ASSUME NEW c \in Clients, NEW m \in out[c], HandleGraph(c, m) PROVE Core(l)'
      BY <1>0, <2>1, <2>2, <2>3, <3>6, CoreGraph
    <3>7. ASSUME NEW c \in Clients, HandleResync(c) PROVE Core(l)'
      BY <1>0, <2>1, <2>2, <2>3, <2>4, <3>7, CoreResync
    <3> QED
      BY <3>1, <3>2, <3>3, <3>4, <3>5, <3>6, <3>7 DEF Next, ClientStep, ServerStep
  <2> QED
    BY <2>1, <2>2, <2>5
<1> QED
  BY <1>0, <1>1, <1>2, FoundedBefore

(* AgreeInv is inductive, and holds at the start.                          *)
LEMMA AgreeInductive ==
  /\ Init => AgreeInv
  /\ AgreeInv /\ [Next]_vars => AgreeInv'
<1>1. Init => AgreeInv
  <2> SUFFICES ASSUME Init PROVE AgreeInv
    OBVIOUS
  <2>1. TypeOK /\ ~Founded /\ joined = {}
    BY TypeInit DEF Init, Founded
  <2>2. RoomShape
    BY DEF Init, RoomShape, Connection, Newcomer, Role, Emitted
  <2> QED
    BY <2>1, <2>2 DEF AgreeInv, HeirsUninformed, FounderLeads, LeaderHears, FollowersHear
<1>2. ASSUME AgreeInv, Next PROVE AgreeInv'
  <2>0. TypeOK /\ RoomShape /\ HeirsUninformed
    BY <1>2 DEF AgreeInv
  <2>1. TypeOK' /\ HeirsUninformed'
    BY <1>2, <2>0, TypeStep, HeirsStep
  <2>2. RoomShape'
    BY <1>2, <2>0, ShapeUser, ShapeClient, ShapeServer DEF Next, ClientStep
  <2>3. FounderLeads' /\ LeaderHears' /\ FollowersHear'
    <3>1. CASE Founded'
      BY <1>2, <3>1, CoreStep, CoreOf
    <3>2. CASE ~Founded'
      BY <3>2 DEF FounderLeads, LeaderHears, FollowersHear
    <3> QED
      BY <3>1, <3>2
  <2> QED
    BY <2>1, <2>2, <2>3 DEF AgreeInv
<1>3. ASSUME AgreeInv, UNCHANGED vars PROVE AgreeInv'
  <2>0. /\ TypeOK /\ RoomShape /\ HeirsUninformed
        /\ FounderLeads /\ LeaderHears /\ FollowersHear
    BY <1>3 DEF AgreeInv
  <2>1. TypeOK' /\ HeirsUninformed'
    BY <1>3, <2>0, TypeStep, HeirsStep
  <2>2. RoomShape'
    BY <1>3, <2>0 DEF vars, RoomShape, Connection, Newcomer, Role, Emitted, Leaving, IsSnapshot
  <2>3. /\ Founded' <=> Founded
        /\ \A c : Ahead(c)' = Ahead(c) /\ Leaving(c)' = Leaving(c)
    BY <1>3 DEF vars, Founded, Informed, Ahead, Leaving
  <2>4. FounderLeads'
    BY <1>3, <2>0, <2>3 DEF vars, FounderLeads, Leads
  <2>5. LeaderHears'
    BY <1>3, <2>0, <2>3 DEF vars, LeaderHears, Relayed, Reported
  <2>6. FollowersHear'
    <3>1. \A l, i : ResyncAfter(l, i)' <=> ResyncAfter(l, i)
      BY <1>3 DEF vars, ResyncAfter
    <3> QED
      BY <1>3, <2>0, <2>3, <3>1 DEF vars, FollowersHear, Served, Asking, Covered
  <2> QED
    BY <2>1, <2>2, <2>4, <2>5, <2>6 DEF AgreeInv
<1> QED
  BY <1>1, <1>2, <1>3

(* In a quiet room nothing is on its way, so who knows what the leader     *)
(* knows, and whose document the leader knows, agree.                      *)
LEMMA AgreeQuiet == AgreeInv => QuietClientsAgree
<1> SUFFICES ASSUME AgreeInv, Quiet, leader # None, Informed(leader),
                    NEW c \in Settled, NEW d \in Settled, ~stray[c], Informed(d)
             PROVE  Merge(doc[d], doc[c]) = doc[d]
  BY DEF QuietClientsAgree
<1>1. /\ TypeOK /\ RoomShape /\ HeirsUninformed /\ FounderLeads /\ LeaderHears /\ FollowersHear
      /\ Founded
  BY DEF AgreeInv, Founded
<1>2. leader \in Clients /\ leader \in joined /\ conn[leader] = "up"
  BY <1>1, FounderUp
<1>3. ASSUME NEW e \in Clients, conn[e] = "up"
      PROVE  Ahead(e) = Parts(doc[e]) /\ Leaving(e) = {} /\ DOMAIN in[e] = {} /\ out[e] = {}
  <2>1. in[e] = <<>> /\ out[e] = {}
    BY <1>3 DEF Quiet
  <2>2. DOMAIN in[e] = {}
    BY <2>1
  <2> QED
    BY <2>1, <2>2 DEF Ahead, Leaving
<1>4. c \in Clients /\ c \in joined /\ conn[c] = "up" /\ d \in Clients /\ d \in joined /\ conn[d] = "up"
  BY DEF Settled
<1>5. Parts(doc[c]) \subseteq Parts(doc[leader])
  BY <1>1, <1>2, <1>3, <1>4 DEF LeaderHears, Reported
<1>6. Parts(doc[leader]) \subseteq Parts(doc[d])
  <2>1. CASE d = leader
    BY <2>1
  <2>2. CASE d # leader
    <3>1. ~Asking(d) /\ ~unheard[d] /\ ~ResyncAfter(leader, 0)
      BY <1>2, <1>3, <1>4 DEF Asking, Informed, ResyncAfter
    <3>2. Covered(leader, d)
      BY <1>1, <1>4, <2>2, <3>1 DEF FollowersHear, Served
    <3> QED
      BY <1>2, <1>3, <1>4, <3>1, <3>2 DEF Covered
  <2> QED
    BY <2>1, <2>2
<1>7. doc[c] \in Docs /\ doc[d] \in Docs
  BY <1>1, <1>4 DEF TypeOK
<1>8. doc[c].seeds \subseteq doc[d].seeds /\ doc[c].edits \subseteq doc[d].edits
  <2>1. Parts(doc[c]) \subseteq Parts(doc[d])
    BY <1>5, <1>6
  <2> QED
    BY <1>7, <2>1, PartsOrder
<1>9. Merge(doc[d], doc[c]) = [seeds |-> doc[d].seeds, edits |-> doc[d].edits]
  BY <1>8 DEF Merge
<1> QED
  BY <1>7, <1>9 DEF Docs

(* Once everything sent has been handled, the clients of a room hold what  *)
(* each other holds, whatever joined, edited, was refused or lost its      *)
(* connection before: the relay, the leader's answers and the order in     *)
(* which they arrive lose nothing but what QuietClientsAgree excepts.      *)
THEOREM QuietRoomAgrees == Spec => []QuietClientsAgree
  BY AgreeInductive, AgreeQuiet, PTL DEF Spec
=============================================================================
