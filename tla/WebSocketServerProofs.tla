----------------------- MODULE WebSocketServerProofs -----------------------
(***************************************************************************)
(* Proofs about WebSocketServer, for any connections, number of frames and *)
(* size of the buffer before the verdict.                                  *)
(***************************************************************************)
EXTENDS WebSocketServer, SequenceTheorems, TLAPS

-----------------------------------------------------------------------------
(* Sequences of frames in the order of their arrival, $disconnect last      *)

Frames == 0 .. MaxFrames

Ends(s) == \E k \in 1 .. Len(s) : s[k] = Bye

(* The frames of s came after the frame lo, in this order, up to the frame  *)
(* hi; nothing follows $disconnect.                                         *)
InOrder(s, lo, hi) ==
  /\ \A k \in 1 .. Len(s) : s[k] = Bye => k = Len(s)
  /\ \A k \in 1 .. Len(s) : s[k] # Bye => lo < s[k] /\ s[k] <= hi
  /\ \A j, k \in 1 .. Len(s) : j < k => s[k] = Bye \/ s[j] < s[k]

LEMMA FrameAppended ==
  ASSUME NEW s \in Seq(Frames), NEW lo \in Frames, NEW hi \in Frames,
         NEW f \in Frames, f = hi + 1, InOrder(s, lo, hi), ~Ends(s), lo <= hi
  PROVE  /\ Append(s, f) \in Seq(Frames)
         /\ InOrder(Append(s, f), lo, f)
         /\ ~Ends(Append(s, f))
         /\ \A x : x \in ToSet(Append(s, f)) <=> x \in ToSet(s) \/ x = f
<1> DEFINE t == Append(s, f)
<1>1. t \in Seq(Frames) /\ Len(t) = Len(s) + 1 /\ t[Len(s) + 1] = f
      /\ \A k \in 1 .. Len(s) : t[k] = s[k]
  OBVIOUS
<1>2. Len(s) \in Nat /\ \A k \in 1 .. Len(s) : s[k] \in Frames
  OBVIOUS
<1> HIDE DEF t
<1>3. \A k \in 1 .. Len(t) : t[k] # Bye
  BY <1>1, <1>2 DEF Ends, Frames, Bye
<1>4. \A k \in 1 .. Len(t) : lo < t[k] /\ t[k] <= f
  BY <1>1, <1>2 DEF InOrder, Ends, Frames, Bye
<1>5. \A j, k \in 1 .. Len(t) : j < k => t[j] < t[k]
  BY <1>1, <1>2 DEF InOrder, Ends, Frames, Bye
<1>6. \A x : x \in ToSet(t) <=> x \in ToSet(s) \/ x = f
  <2>1. DOMAIN t = 1 .. Len(s) + 1 /\ DOMAIN s = 1 .. Len(s)
    BY <1>1
  <2> QED BY <1>1, <1>2, <2>1 DEF ToSet
<1>7. InOrder(t, lo, f)
  BY <1>3, <1>4, <1>5 DEF InOrder
<1> QED BY <1>1, <1>3, <1>6, <1>7 DEF t, Ends

LEMMA ByeAppended ==
  ASSUME MaxFrames \in Nat,
         NEW s \in Seq(Frames), NEW lo \in Frames, NEW hi \in Frames,
         InOrder(s, lo, hi), ~Ends(s)
  PROVE  /\ Append(s, Bye) \in Seq(Frames)
         /\ InOrder(Append(s, Bye), lo, hi)
         /\ Ends(Append(s, Bye))
         /\ \A x : x \in ToSet(Append(s, Bye)) <=> x \in ToSet(s) \/ x = Bye
<1> DEFINE t == Append(s, Bye)
<1>1. Bye \in Frames
  BY DEF Frames, Bye
<1>2. t \in Seq(Frames) /\ Len(t) = Len(s) + 1 /\ t[Len(s) + 1] = Bye
      /\ \A k \in 1 .. Len(s) : t[k] = s[k]
  BY <1>1
<1>3. Len(s) \in Nat /\ \A k \in 1 .. Len(s) : s[k] \in Frames
  OBVIOUS
<1> HIDE DEF t
<1>4. \A x : x \in ToSet(t) <=> x \in ToSet(s) \/ x = Bye
  <2>1. DOMAIN t = 1 .. Len(s) + 1 /\ DOMAIN s = 1 .. Len(s)
    BY <1>2
  <2> QED BY <1>2, <1>3, <2>1 DEF ToSet
<1>5. Ends(t)
  BY <1>2, <1>3 DEF Ends
<1>6. InOrder(t, lo, hi)
  <2>1. \A k \in 1 .. Len(t) : k = Len(s) + 1 \/ k \in 1 .. Len(s)
    BY <1>2, <1>3
  <2>2. \A k \in 1 .. Len(t) : t[k] = Bye => k = Len(t)
    BY <1>2, <2>1 DEF Ends
  <2>3. \A k \in 1 .. Len(t) : t[k] # Bye => lo < t[k] /\ t[k] <= hi
    BY <1>2, <2>1 DEF InOrder
  <2>4. \A j, k \in 1 .. Len(t) : j < k => t[k] = Bye \/ t[j] < t[k]
    <3> SUFFICES ASSUME NEW j \in 1 .. Len(t), NEW k \in 1 .. Len(t), j < k, t[k] # Bye
                 PROVE  t[j] < t[k]
      OBVIOUS
    <3>1. k \in 1 .. Len(s) /\ j \in 1 .. Len(s)
      BY <1>2, <1>3, <2>1
    <3> QED BY <1>2, <3>1 DEF InOrder
  <2> QED BY <2>2, <2>3, <2>4 DEF InOrder
<1> QED BY <1>2, <1>4, <1>5, <1>6 DEF t

LEMMA Dequeued ==
  ASSUME NEW s \in Seq(Frames), NEW lo \in Frames, NEW hi \in Frames,
         InOrder(s, lo, hi), s # <<>>
  PROVE  /\ Tail(s) \in Seq(Frames) /\ Head(s) \in Frames
         /\ Head(s) = Bye => Tail(s) = <<>> /\ Ends(s)
         /\ Head(s) # Bye => /\ lo < Head(s) /\ Head(s) <= hi
                             /\ InOrder(Tail(s), Head(s), hi)
                             /\ Ends(Tail(s)) <=> Ends(s)
         /\ \A x : x \in ToSet(s) <=> x = Head(s) \/ x \in ToSet(Tail(s))
<1> DEFINE t == Tail(s)
<1> DEFINE h == Head(s)
<1>1. t \in Seq(Frames) /\ Len(t) = Len(s) - 1 /\ h = s[1] /\ Len(s) >= 1
      /\ \A k \in 1 .. Len(s) - 1 : t[k] = s[k + 1]
  OBVIOUS
<1>2. Len(s) \in Nat /\ \A k \in 1 .. Len(s) : s[k] \in Frames
  OBVIOUS
<1>3. h = Bye => t = <<>> /\ Ends(s)
  <2> SUFFICES ASSUME h = Bye PROVE t = <<>> /\ Ends(s)
    OBVIOUS
  <2>0. 1 \in 1 .. Len(s) /\ s[1] = Bye
    BY <1>1, <1>2
  <2>1. Len(s) = 1 /\ Ends(s)
    BY <2>0 DEF InOrder, Ends
  <2>2. Len(t) = 0
    BY <2>1, <1>1
  <2> QED BY <2>1, <2>2, <1>1, EmptySeq
<1> HIDE DEF t, h
<1>4. \A x : x \in ToSet(s) <=> x = h \/ x \in ToSet(t)
  <2>1. DOMAIN t = 1 .. Len(s) - 1 /\ DOMAIN s = 1 .. Len(s)
    BY <1>1, <1>2
  <2>2. \A k \in 1 .. Len(s) : k = 1 \/ (k - 1 \in 1 .. Len(s) - 1 /\ s[k] = t[k - 1])
    BY <1>1, <1>2
  <2>3. \A k \in 1 .. Len(s) - 1 : k + 1 \in 1 .. Len(s)
    BY <1>2
  <2>4. \A x : x \in ToSet(s) <=> \E k \in 1 .. Len(s) : x = s[k]
    BY <2>1 DEF ToSet
  <2>5. \A x : x \in ToSet(t) <=> \E k \in 1 .. Len(s) - 1 : x = s[k + 1]
    BY <1>1, <2>1 DEF ToSet
  <2> QED
    <3> TAKE x
    <3>1. x \in ToSet(s) => x = h \/ x \in ToSet(t)
      BY <1>1, <2>2, <2>4, <1>1, <2>1 DEF ToSet
    <3>2. x = h => x \in ToSet(s)
      BY <1>1, <1>2, <2>4
    <3>3. x \in ToSet(t) => x \in ToSet(s)
      BY <2>3, <2>4, <2>5
    <3> QED BY <3>1, <3>2, <3>3
<1>5. ASSUME h # Bye
      PROVE  /\ lo < h /\ h <= hi
             /\ InOrder(t, h, hi)
             /\ Ends(t) <=> Ends(s)
  <2>1. lo < h /\ h <= hi
    BY <1>1, <1>2, <1>5 DEF InOrder, Frames
  <2>2. \A k \in 1 .. Len(t) : k + 1 \in 1 .. Len(s) /\ t[k] = s[k + 1] /\ s[k + 1] \in Frames
    BY <1>1, <1>2
  <2>3. \A k \in 1 .. Len(t) : t[k] = Bye => k = Len(t)
    BY <1>1, <1>2, <2>2 DEF InOrder
  <2>4. \A k \in 1 .. Len(t) : t[k] # Bye => h < t[k] /\ t[k] <= hi
    BY <1>1, <1>2, <1>5, <2>2 DEF InOrder, Frames
  <2>5. \A j, k \in 1 .. Len(t) : j < k => t[k] = Bye \/ t[j] < t[k]
    <3> SUFFICES ASSUME NEW j \in 1 .. Len(t), NEW k \in 1 .. Len(t), j < k
                 PROVE  t[k] = Bye \/ t[j] < t[k]
      OBVIOUS
    <3>1. j + 1 < k + 1
      BY <1>1, <1>2
    <3> QED BY <2>2, <3>1 DEF InOrder
  <2>6. Ends(t) => Ends(s)
    BY <2>2 DEF Ends
  <2>7. Ends(s) => Ends(t)
    <3> SUFFICES ASSUME NEW k \in 1 .. Len(s), s[k] = Bye PROVE Ends(t)
      BY DEF Ends
    <3>1. k # 1
      BY <1>1, <1>5
    <3>2. k - 1 \in 1 .. Len(t) /\ t[k - 1] = s[k]
      BY <3>1, <1>1, <1>2
    <3> QED BY <3>2 DEF Ends
  <2> QED BY <2>1, <2>3, <2>4, <2>5, <2>6, <2>7 DEF InOrder
<1> QED BY <1>1, <1>2, <1>3, <1>4, <1>5 DEF t, h

(* Nothing is in order.                                                      *)
LEMMA EmptyInOrder ==
  ASSUME NEW lo, NEW hi
  PROVE  InOrder(<<>>, lo, hi) /\ ~Ends(<<>>) /\ \A x : x \notin ToSet(<<>>)
BY DEF InOrder, Ends, ToSet

-----------------------------------------------------------------------------
(* The inductive invariant                                                  *)

(* What is buffered and what is queued came in this order, the queue after   *)
(* what has been handed over.                                                *)
Orderly(c) ==
  /\ InOrder(buffer[c], 0, sent[c])
  /\ InOrder(chain[c], latest[c], sent[c])
  /\ latest[c] <= sent[c]

(* Handlers are for admitted connections only; $disconnect is queued with    *)
(* the close event and runs last.                                            *)
Admission(c) ==
  /\ phase[c] = "none" <=> socket[c] = "none"
  /\ phase[c] = "none" => sent[c] = 0
  /\ phase[c] # "connecting" => buffer[c] = <<>>
  /\ phase[c] \in {"none", "connecting", "refused"} =>
       chain[c] = <<>> /\ running[c] = {} /\ latest[c] = 0
  /\ phase[c] = "registered" =>
       /\ Bye \notin running[c]
       /\ Ends(chain[c]) <=> socket[c] = "closed"
  /\ phase[c] = "unregistered" =>
       chain[c] = <<>> /\ running[c] \subseteq {Bye} /\ socket[c] = "closed"

(* The frames of a connection that may still be served are all accounted for. *)
Accounted(c) ==
  phase[c] \in {"connecting", "registered"} =>
    \A f \in 1 .. sent[c] :
      f \in overflowed[c] \union Pending(c) \/ f <= latest[c]

ConnInv(c) == Orderly(c) /\ Admission(c) /\ Accounted(c)

(* What close() still has to wait for, or has given up on.                   *)
Shutting ==
  /\ server = "closing" => \A c \in Conns : Live(c) => c \in closes \union unanswered
  /\ server \in {"draining", "ending", "closed"} =>
       \A c \in Conns : Live(c) => c \in unanswered
  /\ server = "draining" => InFlightDisconnects \subseteq drained \union unanswered
  /\ server \in {"ending", "closed"} => InFlightDisconnects \subseteq unanswered
  /\ server = "closed" => ~ClientsLeft

SocketInv ==
  /\ TypeOK
  /\ \A c \in Conns : ConnInv(c)
  /\ Shutting

(* The buffered and the queued items of a connection, with their types.      *)
LEMMA Items ==
  ASSUME WebSocketAssumption, TypeOK, NEW c \in Conns
  PROVE  /\ MaxFrames \in Nat /\ MAX_PRE_VERDICT_FRAMES \in Nat
         /\ chain[c] \in Seq(Frames) /\ buffer[c] \in Seq(1 .. MaxFrames)
         /\ buffer[c] \in Seq(Frames) /\ ~Ends(buffer[c])
         /\ sent[c] \in Frames /\ latest[c] \in Frames /\ Bye \in Frames
         /\ Contains(chain[c], Bye) <=> Ends(chain[c])
<1>1. MaxFrames \in Nat /\ MAX_PRE_VERDICT_FRAMES \in Nat
  BY DEF WebSocketAssumption
<1>2. chain[c] \in Seq(Frames) /\ buffer[c] \in Seq(1 .. MaxFrames)
      /\ sent[c] \in Frames /\ latest[c] \in Frames
  BY DEF TypeOK, Frames
<1>3. Len(buffer[c]) \in Nat /\ \A k \in 1 .. Len(buffer[c]) : buffer[c][k] \in 1 .. MaxFrames
  <2> DEFINE S == 1 .. MaxFrames
  <2>1. buffer[c] \in Seq(S)
    BY <1>2
  <2> HIDE DEF S
  <2>2. Len(buffer[c]) \in Nat /\ \A k \in 1 .. Len(buffer[c]) : buffer[c][k] \in S
    BY <2>1, LenProperties, ElementOfSeq
  <2> QED BY <2>2 DEF S
<1>4. buffer[c] \in Seq(Frames)
  <2> DEFINE S == 1 .. MaxFrames
  <2>1. buffer[c] \in Seq(S) /\ S \subseteq Frames
    BY <1>1, <1>2 DEF Frames
  <2> HIDE DEF S
  <2> QED BY <2>1, SeqMonotonic
<1>5. ~Ends(buffer[c])
  BY <1>1, <1>3 DEF Ends, Bye
<1>6. Contains(chain[c], Bye) <=> Ends(chain[c])
  BY DEF Contains, Ends
<1>7. Bye \in Frames
  BY <1>1 DEF Frames, Bye
<1> QED BY <1>1, <1>2, <1>4, <1>5, <1>6, <1>7

LEMMA InitSocketInv ==
  ASSUME WebSocketAssumption, Init
  PROVE  SocketInv
<1>1. MaxFrames \in Nat /\ MAX_PRE_VERDICT_FRAMES \in Nat
  BY DEF WebSocketAssumption
<1>2. TypeOK
  <2>1. <<>> \in Seq(1 .. MaxFrames) /\ <<>> \in Seq(0 .. MaxFrames) /\ Len(<<>>) = 0
    OBVIOUS
  <2> QED BY <1>1, <2>1 DEF Init, TypeOK
<1>3. ASSUME NEW c \in Conns PROVE ConnInv(c)
  <2>1. /\ phase[c] = "none" /\ socket[c] = "none" /\ sent[c] = 0 /\ buffer[c] = <<>>
        /\ chain[c] = <<>> /\ running[c] = {} /\ latest[c] = 0
    BY DEF Init
  <2>2. InOrder(<<>>, 0, 0)
    BY EmptyInOrder
  <2> QED BY <2>1, <2>2 DEF ConnInv, Orderly, Admission, Accounted
<1>4. Shutting
  BY DEF Init, Shutting
<1> QED BY <1>2, <1>3, <1>4 DEF SocketInv

-----------------------------------------------------------------------------
(* What a step does not touch                                               *)

(* A connection whose own state a step leaves alone keeps its invariant.     *)
LEMMA Untouched ==
  ASSUME NEW c \in Conns, ConnInv(c),
         /\ phase'[c] = phase[c] /\ socket'[c] = socket[c] /\ sent'[c] = sent[c]
         /\ buffer'[c] = buffer[c] /\ chain'[c] = chain[c] /\ running'[c] = running[c]
         /\ latest'[c] = latest[c] /\ overflowed'[c] = overflowed[c]
  PROVE  ConnInv(c)'
BY DEF ConnInv, Orderly, Admission, Accounted, InOrder, Ends, Pending

(* A $disconnect has no end yet.                                             *)
LastWord(c) == Contains(chain[c], Bye) \/ Bye \in running[c]

(* What a shutdown waits for grows by a close event of a live socket only.   *)
LEMMA ShuttingGoesOn ==
  ASSUME Shutting,
         \A c \in Conns : Live(c)' => Live(c) /\ server # "closed",
         \A c \in Conns : LastWord(c)' => LastWord(c) \/ (Live(c) /\ ~Live(c)'),
         server' = server,
         unanswered' = unanswered, drained' = drained,
         \A c \in Conns : c \in closes => c \in closes' \/ ~Live(c)'
  PROVE  Shutting'
<1>1. InFlightDisconnects = {c \in Conns : LastWord(c)}
      /\ InFlightDisconnects' = {c \in Conns : LastWord(c)'}
  BY DEF InFlightDisconnects, LastWord
<1>2. \A c \in Conns : Live(c)' => Live(c)
  OBVIOUS
<1>3. server' = "closing" => \A c \in Conns : Live(c)' => c \in closes' \union unanswered'
  BY <1>2 DEF Shutting
<1>4. server' \in {"draining", "ending", "closed"} =>
        \A c \in Conns : Live(c)' => c \in unanswered'
  BY <1>2 DEF Shutting
<1>5. server' = "draining" => InFlightDisconnects' \subseteq drained' \union unanswered'
  BY <1>1 DEF Shutting
<1>6. server' \in {"ending", "closed"} => InFlightDisconnects' \subseteq unanswered'
  BY <1>1 DEF Shutting
<1>7. server' = "closed" => ~ClientsLeft'
  BY DEF ClientsLeft
<1> QED BY <1>3, <1>4, <1>5, <1>6, <1>7 DEF Shutting

-----------------------------------------------------------------------------
(* The verdict                                                              *)

LEMMA UpgradeStep ==
  ASSUME WebSocketAssumption, SocketInv, NEW c \in Conns, Upgrade(c)
  PROVE  SocketInv'
<1>1. TypeOK /\ Shutting /\ \A d \in Conns : ConnInv(d)
  BY DEF SocketInv
<1>2. /\ MaxFrames \in Nat /\ phase[c] = "none" /\ sent[c] = 0 /\ latest[c] = 0
      /\ chain[c] = <<>> /\ buffer[c] = <<>> /\ running[c] = {}
  BY <1>1, Items DEF Upgrade, ConnInv, Admission
<1>3. chain[c] \o buffer[c] = <<>>
  BY <1>2
<1>4. /\ socket' = [socket EXCEPT ![c] = "open"]
      /\ phase' = [phase EXCEPT ![c] = "registered"]
         \/ phase' = [phase EXCEPT ![c] = "connecting"]
      /\ chain' = chain /\ buffer' = buffer /\ UNCHANGED <<sent, running, closeVars, histVars>>
  <2>1. CASE c \in Unguarded /\ Register(c)
    <3>1. chain' = [chain EXCEPT ![c] = <<>>] /\ buffer' = [buffer EXCEPT ![c] = <<>>]
      BY <2>1, <1>3 DEF Register, BufferDispatched
    <3>2. chain' = chain /\ buffer' = buffer
      BY <3>1, <1>1, <1>2 DEF TypeOK
    <3> QED BY <2>1, <3>2 DEF Upgrade, Register
  <2>2. CASE c \notin Unguarded
    BY <2>2 DEF Upgrade
  <2> QED BY <2>1, <2>2 DEF Upgrade
<1>5. TypeOK'
  BY <1>1, <1>4 DEF TypeOK, closeVars, histVars
<1>6. ASSUME NEW d \in Conns, d # c PROVE ConnInv(d)'
  BY <1>1, <1>4, <1>6, Untouched DEF TypeOK, histVars
<1>7. ConnInv(c)'
  <2>1. /\ phase'[c] \in {"registered", "connecting"} /\ socket'[c] = "open"
        /\ sent'[c] = 0 /\ latest'[c] = 0 /\ chain'[c] = <<>> /\ buffer'[c] = <<>>
        /\ running'[c] = {}
    BY <1>1, <1>2, <1>4 DEF TypeOK, histVars
  <2>2. InOrder(<<>>, 0, 0) /\ ~Ends(<<>>)
    BY EmptyInOrder
  <2>3. Orderly(c)'
    BY <2>1, <2>2 DEF Orderly
  <2>4. Admission(c)'
    BY <2>1, <2>2 DEF Admission
  <2>5. Accounted(c)'
    BY <2>1 DEF Accounted
  <2> QED BY <2>3, <2>4, <2>5 DEF ConnInv
<1>8. Shutting'
  BY <1>4 DEF Upgrade, Shutting, closeVars
<1> QED BY <1>5, <1>6, <1>7, <1>8 DEF SocketInv

(* Nobody waits for a connection that has not been admitted.                 *)
LEMMA NoLastWord ==
  ASSUME WebSocketAssumption, SocketInv, NEW c \in Conns,
         phase[c] \in {"none", "connecting", "refused"}
  PROVE  ~LastWord(c)
BY Items, EmptyInOrder DEF SocketInv, ConnInv, Admission, LastWord

LEMMA Refused ==
  ASSUME WebSocketAssumption, SocketInv, NEW c \in Conns,
         phase[c] = "connecting",
         phase' = [phase EXCEPT ![c] = "refused"],
         buffer' = [buffer EXCEPT ![c] = <<>>],
         socket' = [socket EXCEPT ![c] = IF @ = "open" THEN "closing" ELSE @],
         UNCHANGED <<sent, chain, running, closeVars, histVars>>
  PROVE  SocketInv'
<1>1. TypeOK /\ Shutting /\ \A d \in Conns : ConnInv(d)
  BY DEF SocketInv
<1>2. TypeOK'
  <2>1. <<>> \in Seq(1 .. MaxFrames) /\ Len(<<>>) = 0 /\ MAX_PRE_VERDICT_FRAMES \in Nat
    BY DEF WebSocketAssumption
  <2>2. buffer' \in [Conns -> Seq(1 .. MaxFrames)]
    BY <1>1, <2>1 DEF TypeOK
  <2>3. \A d \in Conns : Len(buffer'[d]) <= MAX_PRE_VERDICT_FRAMES
    BY <1>1, <2>1 DEF TypeOK
  <2>4. socket' \in [Conns -> {"none", "open", "closing", "ending", "closed"}]
    BY <1>1 DEF TypeOK
  <2> QED BY <1>1, <2>2, <2>3, <2>4 DEF TypeOK, closeVars, histVars
<1>3. ASSUME NEW d \in Conns, d # c PROVE ConnInv(d)'
  BY <1>1, <1>3, Untouched DEF TypeOK, histVars
<1>4. /\ phase'[c] = "refused" /\ buffer'[c] = <<>> /\ sent'[c] = sent[c]
      /\ socket'[c] # "none" /\ chain'[c] = <<>> /\ running'[c] = {} /\ latest'[c] = 0
  BY <1>1 DEF TypeOK, histVars, ConnInv, Admission
<1>5. ConnInv(c)'
  <2>1. InOrder(<<>>, 0, sent[c]) /\ 0 <= sent[c]
    BY <1>1, Items, EmptyInOrder DEF Frames
  <2> QED BY <1>4, <2>1 DEF ConnInv, Orderly, Admission, Accounted
<1>6. Shutting'
  <2>1. \A d \in Conns : LastWord(d)' => LastWord(d)
    BY DEF LastWord
  <2>2. \A d \in Conns : Live(d)' => Live(d) /\ server # "closed"
    BY <1>1 DEF Live, Shutting, ClientsLeft, TypeOK
  <2> QED BY <1>1, <2>1, <2>2, ShuttingGoesOn DEF closeVars, histVars
<1> QED BY <1>2, <1>3, <1>5, <1>6 DEF SocketInv

LEMMA AllowedStep ==
  ASSUME WebSocketAssumption, SocketInv, NEW c \in Conns, Allowed(c)
  PROVE  SocketInv'
<1>1. TypeOK /\ Shutting /\ \A d \in Conns : ConnInv(d)
  BY DEF SocketInv
<1>2. /\ phase[c] = "connecting" /\ latest[c] = 0 /\ chain[c] = <<>> /\ running[c] = {}
      /\ MaxFrames \in Nat /\ buffer[c] \in Seq(Frames) /\ ~Ends(buffer[c])
      /\ buffer[c] \in Seq(1 .. MaxFrames) /\ sent[c] \in Frames
  BY <1>1, Items DEF Allowed, ConnInv, Admission
<1>3. UNCHANGED <<socket, sent, running, closeVars, histVars>>
  BY DEF Allowed
<1>4. CASE StillOpen(c) /\ Register(c)
  <2>1. /\ phase' = [phase EXCEPT ![c] = "registered"]
        /\ chain' = [chain EXCEPT ![c] = buffer[c]]
        /\ buffer' = [buffer EXCEPT ![c] = <<>>]
    <3>1. chain[c] \o buffer[c] = buffer[c]
      BY <1>2, ConcatEmptySeq
    <3> QED BY <1>4, <3>1 DEF Register, BufferDispatched
  <2>2. TypeOK'
    <3>1. chain' \in [Conns -> Seq(0 .. MaxFrames)]
      BY <1>1, <1>2, <2>1 DEF TypeOK, Frames
    <3>2. buffer' \in [Conns -> Seq(1 .. MaxFrames)]
      <4>1. <<>> \in Seq(1 .. MaxFrames)
        OBVIOUS
      <4> QED BY <1>1, <2>1, <4>1 DEF TypeOK
    <3>3. \A d \in Conns : Len(buffer'[d]) <= MAX_PRE_VERDICT_FRAMES
      <4>1. Len(<<>>) = 0 /\ MAX_PRE_VERDICT_FRAMES \in Nat
        BY DEF WebSocketAssumption
      <4> QED BY <1>1, <2>1, <4>1 DEF TypeOK
    <3> QED BY <1>1, <1>3, <2>1, <3>1, <3>2, <3>3 DEF TypeOK, closeVars, histVars
  <2>3. ASSUME NEW d \in Conns, d # c PROVE ConnInv(d)'
    BY <1>1, <1>3, <2>1, <2>3, Untouched DEF TypeOK, histVars
  <2>4. /\ phase'[c] = "registered" /\ chain'[c] = buffer[c] /\ buffer'[c] = <<>>
        /\ socket'[c] = "open" /\ sent'[c] = sent[c] /\ latest'[c] = 0 /\ running'[c] = {}
        /\ overflowed'[c] = overflowed[c]
    BY <1>1, <1>2, <1>3, <1>4, <2>1 DEF TypeOK, histVars, StillOpen
  <2>5. Orderly(c)'
    <3>1. InOrder(<<>>, 0, sent[c])
      BY EmptyInOrder
    <3>2. InOrder(buffer[c], 0, sent[c]) /\ 0 <= sent[c]
      BY <1>1, <1>2 DEF ConnInv, Orderly, Frames
    <3> QED BY <2>4, <3>1, <3>2 DEF Orderly
  <2>6. Admission(c)'
    BY <1>2, <2>4 DEF Admission
  <2>7. Accounted(c)'
    <3> SUFFICES ASSUME NEW f \in 1 .. sent[c]
                 PROVE  (f \in overflowed[c] \union Pending(c) \/ f <= latest[c])'
      BY <2>4 DEF Accounted
    <3>1. f \in overflowed[c] \/ f \in Pending(c) \/ f <= latest[c]
      BY <1>1, <1>2 DEF ConnInv, Accounted
    <3>2. f # Bye /\ ~(f <= latest[c])
      BY <1>2 DEF Bye, Frames
    <3>3. f \in overflowed[c] \/ f \in ToSet(buffer[c])
      BY <1>2, <3>1, <3>2, EmptyInOrder DEF Pending
    <3>4. f \in overflowed'[c] \/ f \in Pending(c)'
      BY <2>4, <3>2, <3>3 DEF Pending
    <3> QED BY <3>4
  <2>8. Shutting'
    <3>1. \A d \in Conns : LastWord(d)' => LastWord(d)
      <4>1. ~LastWord(c)'
        BY <1>2, <2>4 DEF LastWord, Contains, Ends
      <4>2. \A d \in Conns \ {c} : LastWord(d)' <=> LastWord(d)
        BY <1>1, <1>3, <2>1 DEF LastWord, TypeOK
      <4> QED BY <4>1, <4>2
    <3>2. \A d \in Conns : Live(d)' => Live(d) /\ server # "closed"
      BY <1>1, <1>3 DEF Live, Shutting, ClientsLeft
    <3> QED BY <1>1, <1>3, <3>1, <3>2, ShuttingGoesOn DEF closeVars, histVars
  <2> QED BY <2>2, <2>3, <2>5, <2>6, <2>7, <2>8 DEF SocketInv, ConnInv
<1>5. CASE ~StillOpen(c)
  <2>1. socket' = [socket EXCEPT ![c] = IF @ = "open" THEN "closing" ELSE @]
    BY <1>1, <1>3, <1>5 DEF StillOpen, TypeOK
  <2> QED BY <1>2, <1>3, <1>5, <2>1, Refused DEF Allowed
<1> QED BY <1>4, <1>5 DEF Allowed

LEMMA DeniedStep ==
  ASSUME WebSocketAssumption, SocketInv, NEW c \in Conns, Denied(c)
  PROVE  SocketInv'
BY Refused DEF Denied

-----------------------------------------------------------------------------
(* The listeners of a socket                                                *)

(* A frame changes what is buffered, queued or dropped of its connection.    *)
LEMMA FrameKept ==
  ASSUME WebSocketAssumption, SocketInv, NEW c \in Conns, FrameArrives(c),
         TypeOK', ConnInv(c)', LastWord(c)' => LastWord(c)
  PROVE  SocketInv'
<1>1. TypeOK /\ Shutting /\ \A d \in Conns : ConnInv(d)
  BY DEF SocketInv
<1>2. /\ UNCHANGED <<phase, socket, running, closeVars, latest, unanswered>>
      /\ \A d \in Conns \ {c} :
           /\ sent'[d] = sent[d] /\ buffer'[d] = buffer[d]
           /\ chain'[d] = chain[d] /\ overflowed'[d] = overflowed[d]
  BY <1>1 DEF FrameArrives, TypeOK
<1>3. ASSUME NEW d \in Conns, d # c PROVE ConnInv(d)'
  BY <1>1, <1>2, <1>3, Untouched
<1>4. \A d \in Conns : LastWord(d)' => LastWord(d)
  <2>1. \A d \in Conns \ {c} : LastWord(d)' <=> LastWord(d)
    BY <1>2 DEF LastWord
  <2> QED BY <2>1
<1>5. \A d \in Conns : Live(d)' => Live(d) /\ server # "closed"
  BY <1>1, <1>2 DEF Live, Shutting, ClientsLeft
<1>6. Shutting'
  BY <1>1, <1>2, <1>4, <1>5, ShuttingGoesOn DEF closeVars
<1> QED BY <1>3, <1>6 DEF SocketInv

LEMMA FrameArrivesStep ==
  ASSUME WebSocketAssumption, SocketInv, NEW c \in Conns, FrameArrives(c)
  PROVE  SocketInv'
<1>1. TypeOK /\ ConnInv(c)
  BY DEF SocketInv
<1> DEFINE f == sent[c] + 1
<1>2. /\ MaxFrames \in Nat /\ MAX_PRE_VERDICT_FRAMES \in Nat
      /\ chain[c] \in Seq(Frames) /\ buffer[c] \in Seq(1 .. MaxFrames)
      /\ buffer[c] \in Seq(Frames) /\ ~Ends(buffer[c])
      /\ sent[c] \in Frames /\ latest[c] \in Frames /\ 0 \in Frames
  BY <1>1, Items DEF Frames
<1>3. /\ f \in 1 .. MaxFrames /\ f \in Frames /\ f # Bye
      /\ sent' = [sent EXCEPT ![c] = f] /\ sent'[c] = f
      /\ \A n \in 1 .. f : n = f \/ n \in 1 .. sent[c]
  <2>1. sent[c] < MaxFrames /\ sent' = [sent EXCEPT ![c] = @ + 1]
    BY DEF FrameArrives
  <2> QED BY <1>1, <1>2, <2>1 DEF Frames, Bye, TypeOK
<1>4. /\ UNCHANGED <<phase, socket, running, closeVars, latest, unanswered>>
      /\ socket[c] \in {"open", "closing"}
  BY DEF FrameArrives
<1>5. /\ phase[c] = "none" => socket[c] = "none"
      /\ InOrder(buffer[c], 0, sent[c]) /\ InOrder(chain[c], latest[c], sent[c])
      /\ latest[c] <= sent[c]
  BY <1>1 DEF ConnInv, Admission, Orderly
(* What came before is still in order when one more has arrived. *)
<1>6. ASSUME NEW s \in Seq(Frames), NEW lo \in Frames, InOrder(s, lo, sent[c])
      PROVE  InOrder(s, lo, f)
  <2>1. \A k \in 1 .. Len(s) : s[k] \in Int
    BY <1>2, <1>6 DEF Frames
  <2>2. sent[c] \in Int /\ f = sent[c] + 1
    BY <1>2 DEF Frames
  <2>3. \A k \in 1 .. Len(s) : s[k] <= sent[c] => s[k] <= f
    BY <2>1, <2>2
  <2> HIDE DEF f
  <2> QED BY <1>6, <2>3 DEF InOrder
<1>6a. ASSUME NEW s \in Seq(Frames), NEW lo \in Frames, InOrder(s, lo, sent[c]),
              ~Ends(s), lo <= sent[c]
       PROVE  /\ Append(s, f) \in Seq(Frames)
              /\ InOrder(Append(s, f), lo, f)
              /\ ~Ends(Append(s, f))
              /\ \A x : x \in ToSet(Append(s, f)) <=> x \in ToSet(s) \/ x = f
  <2> DEFINE hi == sent[c]
  <2>1. hi \in Frames /\ f \in Frames /\ f = hi + 1 /\ InOrder(s, lo, hi) /\ lo <= hi
    BY <1>2, <1>3, <1>6a
  <2> HIDE DEF f, hi
  <2> QED BY <1>6a, <2>1, FrameAppended
<1>7. /\ sent' \in [Conns -> 0 .. MaxFrames]
      /\ \A d \in Conns \ {c} : sent'[d] = sent[d]
  BY <1>1, <1>3 DEF TypeOK, Frames
<1> HIDE DEF f
<1>8. CASE phase[c] = "connecting" /\ ~BufferFull(c)
  <2>1. /\ buffer' = [buffer EXCEPT ![c] = Append(buffer[c], f)]
        /\ UNCHANGED <<chain, overflowed>>
    <3>1. buffer' = [buffer EXCEPT ![c] = Append(@, sent'[c])] /\ UNCHANGED <<chain, overflowed>>
      BY <1>8 DEF FrameArrives
    <3> QED BY <1>3, <3>1
  <2>2. /\ Append(buffer[c], f) \in Seq(Frames)
        /\ InOrder(Append(buffer[c], f), 0, f)
        /\ \A x : x \in ToSet(Append(buffer[c], f)) <=> x \in ToSet(buffer[c]) \/ x = f
    <3>1. 0 <= sent[c]
      BY <1>2 DEF Frames
    <3> QED BY <1>2, <1>5, <1>6a, <3>1
  <2>3. Append(buffer[c], f) \in Seq(1 .. MaxFrames)
        /\ Len(Append(buffer[c], f)) = Len(buffer[c]) + 1
    <3> DEFINE S == 1 .. MaxFrames
    <3>1. buffer[c] \in Seq(S) /\ f \in S
      BY <1>2, <1>3
    <3> HIDE DEF S
    <3>2. Append(buffer[c], f) \in Seq(S) /\ Len(Append(buffer[c], f)) = Len(buffer[c]) + 1
      BY <3>1, AppendProperties
    <3> QED BY <3>2 DEF S
  <2>4. TypeOK'
    <3>1. buffer' \in [Conns -> Seq(1 .. MaxFrames)]
      BY <1>1, <2>1, <2>3 DEF TypeOK
    <3>2. \A d \in Conns : Len(buffer'[d]) <= MAX_PRE_VERDICT_FRAMES
      <4>1. Len(buffer[c]) \in Nat
        BY <1>2
      <4>2. Len(buffer[c]) + 1 <= MAX_PRE_VERDICT_FRAMES
        BY <1>2, <1>8, <4>1 DEF BufferFull
      <4>3. Len(buffer'[c]) <= MAX_PRE_VERDICT_FRAMES
        BY <1>1, <2>1, <2>3, <4>2 DEF TypeOK
      <4>4. \A d \in Conns \ {c} : Len(buffer'[d]) <= MAX_PRE_VERDICT_FRAMES
        BY <1>1, <2>1 DEF TypeOK
      <4> QED BY <4>3, <4>4
    <3> QED BY <1>1, <1>4, <1>7, <2>1, <3>1, <3>2 DEF TypeOK, closeVars
  <2>5. /\ buffer'[c] = Append(buffer[c], f) /\ chain'[c] = <<>> /\ latest'[c] = 0
        /\ phase'[c] = "connecting" /\ running'[c] = {} /\ socket'[c] # "none"
        /\ overflowed'[c] = overflowed[c]
    BY <1>1, <1>4, <1>8, <2>1 DEF TypeOK, ConnInv, Admission
  <2>6. Orderly(c)'
    <3>1. InOrder(<<>>, 0, f) /\ 0 <= f
      BY <1>3, EmptyInOrder
    <3> QED BY <1>3, <2>2, <2>5, <3>1 DEF Orderly
  <2>7. Admission(c)'
    BY <2>5 DEF Admission
  <2>8. Accounted(c)'
    <3> SUFFICES ASSUME NEW n \in 1 .. f
                 PROVE  (n \in overflowed[c] \union Pending(c) \/ n <= latest[c])'
      BY <1>3 DEF Accounted
    <3>1. CASE n = f
      BY <1>3, <2>2, <2>5, <3>1 DEF Pending
    <3>2. CASE n \in 1 .. sent[c]
      <4>1. n \in overflowed[c] \/ n \in Pending(c) \/ n <= latest[c]
        BY <1>1, <1>8, <3>2 DEF ConnInv, Accounted
      <4>2. n \in Pending(c) => n \in Pending(c)'
        BY <2>1, <2>2, <2>5 DEF Pending
      <4>3. latest'[c] = latest[c]
        BY <1>4
      <4> QED BY <2>5, <4>1, <4>2, <4>3
    <3> QED BY <1>3, <3>1, <3>2
  <2>9. LastWord(c)' => LastWord(c)
    BY <1>4, <2>1 DEF LastWord
  <2> QED BY <2>4, <2>6, <2>7, <2>8, <2>9, FrameKept DEF ConnInv
<1>9. CASE phase[c] = "connecting" /\ BufferFull(c)
  <2>1. /\ overflowed' = [overflowed EXCEPT ![c] = @ \union {f}]
        /\ UNCHANGED <<chain, buffer>>
    BY <1>3, <1>9 DEF FrameArrives
  <2>2. TypeOK'
    <3>1. overflowed' \in [Conns -> SUBSET (1 .. MaxFrames)]
      BY <1>1, <1>3, <2>1 DEF TypeOK
    <3> QED BY <1>1, <1>4, <1>7, <2>1, <3>1 DEF TypeOK, closeVars
  <2>3. /\ phase'[c] = "connecting" /\ overflowed'[c] = overflowed[c] \union {f}
        /\ chain'[c] = chain[c] /\ buffer'[c] = buffer[c] /\ latest'[c] = latest[c]
        /\ running'[c] = running[c] /\ socket'[c] = socket[c]
    BY <1>1, <1>4, <1>9, <2>1 DEF TypeOK
  <2>4. Orderly(c)'
    <3>1. InOrder(buffer[c], 0, f) /\ InOrder(chain[c], latest[c], f)
      BY <1>2, <1>5, <1>6
    <3>2. latest[c] <= f
      BY <1>2, <1>5 DEF f, Frames
    <3> QED BY <1>3, <2>3, <3>1, <3>2 DEF Orderly
  <2>5. Admission(c)'
    BY <1>1, <1>4, <1>9, <2>3 DEF ConnInv, Admission
  <2>6. Accounted(c)'
    <3> SUFFICES ASSUME NEW n \in 1 .. f
                 PROVE  (n \in overflowed[c] \union Pending(c) \/ n <= latest[c])'
      BY <1>3 DEF Accounted
    <3>1. CASE n \in 1 .. sent[c]
      BY <1>1, <1>9, <2>3, <3>1 DEF ConnInv, Accounted, Pending
    <3> QED BY <1>3, <2>3, <3>1
  <2>7. LastWord(c)' => LastWord(c)
    BY <2>3 DEF LastWord
  <2> QED BY <2>2, <2>4, <2>5, <2>6, <2>7, FrameKept DEF ConnInv
<1>10. CASE phase[c] = "registered"
  <2>1. /\ chain' = [chain EXCEPT ![c] = Append(chain[c], f)]
        /\ UNCHANGED <<buffer, overflowed>>
    BY <1>3, <1>10 DEF FrameArrives, Enqueued
  <2>2. ~Ends(chain[c])
    BY <1>1, <1>4, <1>10 DEF ConnInv, Admission
  <2>3. /\ Append(chain[c], f) \in Seq(Frames)
        /\ InOrder(Append(chain[c], f), latest[c], f)
        /\ ~Ends(Append(chain[c], f))
        /\ \A x : x \in ToSet(Append(chain[c], f)) <=> x \in ToSet(chain[c]) \/ x = f
    BY <1>2, <1>5, <1>6a, <2>2
  <2>4. TypeOK'
    <3>1. chain' \in [Conns -> Seq(0 .. MaxFrames)]
      BY <1>1, <2>1, <2>3 DEF TypeOK, Frames
    <3> QED BY <1>1, <1>4, <1>7, <2>1, <3>1 DEF TypeOK, closeVars
  <2>5. /\ phase'[c] = "registered" /\ overflowed'[c] = overflowed[c]
        /\ chain'[c] = Append(chain[c], f) /\ buffer'[c] = buffer[c]
        /\ latest'[c] = latest[c] /\ running'[c] = running[c] /\ socket'[c] = socket[c]
    BY <1>1, <1>4, <1>10, <2>1 DEF TypeOK
  <2>6. Orderly(c)'
    <3>1. InOrder(buffer[c], 0, f)
      BY <1>2, <1>5, <1>6
    <3>2. latest[c] <= f
      BY <1>2, <1>5 DEF f, Frames
    <3> QED BY <1>3, <2>3, <2>5, <3>1, <3>2 DEF Orderly
  <2>7. Admission(c)'
    BY <1>1, <1>4, <1>10, <2>3, <2>5 DEF ConnInv, Admission
  <2>8. Accounted(c)'
    <3> SUFFICES ASSUME NEW n \in 1 .. f
                 PROVE  (n \in overflowed[c] \union Pending(c) \/ n <= latest[c])'
      BY <1>3 DEF Accounted
    <3>1. CASE n = f
      BY <1>3, <2>3, <2>5, <3>1 DEF Pending
    <3>2. CASE n \in 1 .. sent[c]
      <4>1. n \in overflowed[c] \/ n \in Pending(c) \/ n <= latest[c]
        BY <1>1, <1>10, <3>2 DEF ConnInv, Accounted
      <4>2. n \in Pending(c) => n \in Pending(c)'
        BY <2>3, <2>5 DEF Pending
      <4> QED BY <2>5, <4>1, <4>2
    <3> QED BY <1>3, <3>1, <3>2
  <2>9. LastWord(c)' => LastWord(c)
    BY <2>3, <2>5 DEF LastWord, Contains, Ends
  <2> QED BY <2>4, <2>6, <2>7, <2>8, <2>9, FrameKept DEF ConnInv
<1>11. CASE phase[c] = "refused"
  <2>1. UNCHANGED <<chain, buffer, overflowed>>
    BY <1>11 DEF FrameArrives
  <2>2. TypeOK'
    BY <1>1, <1>4, <1>7, <2>1 DEF TypeOK, closeVars
  <2>3. Orderly(c)'
    <3>1. InOrder(buffer[c], 0, f) /\ InOrder(chain[c], latest[c], f)
      BY <1>2, <1>5, <1>6
    <3>2. latest[c] <= f
      BY <1>2, <1>5 DEF f, Frames
    <3> QED BY <1>3, <1>4, <2>1, <3>1, <3>2 DEF Orderly
  <2>4. Admission(c)' /\ Accounted(c)'
    BY <1>1, <1>4, <1>11, <2>1 DEF ConnInv, Admission, Accounted
  <2>5. LastWord(c)' => LastWord(c)
    BY <1>4, <2>1 DEF LastWord
  <2> QED BY <2>2, <2>3, <2>4, <2>5, FrameKept DEF ConnInv
<1> QED BY <1>8, <1>9, <1>10, <1>11 DEF FrameArrives

(* A socket that stays alive.                                                *)
LEMMA SocketMoves ==
  ASSUME WebSocketAssumption, SocketInv, NEW c \in Conns, NEW s \in {"closing", "ending"},
         socket[c] \in {"open", "closing"},
         socket' = [socket EXCEPT ![c] = s],
         UNCHANGED <<phase, sent, buffer, chain, running, closeVars, histVars>>
  PROVE  SocketInv'
<1>1. TypeOK /\ Shutting /\ \A d \in Conns : ConnInv(d)
  BY DEF SocketInv
<1>2. TypeOK'
  BY <1>1 DEF TypeOK, closeVars, histVars
<1>3. ASSUME NEW d \in Conns, d # c PROVE ConnInv(d)'
  BY <1>1, <1>3, Untouched DEF TypeOK, histVars
<1>4. /\ socket'[c] = s /\ s \notin {"none", "closed"}
      /\ phase'[c] = phase[c] /\ sent'[c] = sent[c] /\ buffer'[c] = buffer[c]
      /\ chain'[c] = chain[c] /\ running'[c] = running[c] /\ latest'[c] = latest[c]
      /\ overflowed'[c] = overflowed[c]
  BY <1>1 DEF TypeOK, histVars
<1>5. ConnInv(c)'
  <2>1. Orderly(c)' /\ Accounted(c)'
    BY <1>1, <1>4 DEF ConnInv, Orderly, Accounted, Pending
  <2>2. Admission(c)'
    BY <1>1, <1>4 DEF ConnInv, Admission
  <2> QED BY <2>1, <2>2 DEF ConnInv
<1>6. Shutting'
  <2>1. \A d \in Conns : LastWord(d)' => LastWord(d)
    BY DEF LastWord
  <2>2. \A d \in Conns : Live(d)' => Live(d) /\ server # "closed"
    BY <1>1 DEF Live, Shutting, ClientsLeft, TypeOK
  <2> QED BY <1>1, <2>1, <2>2, ShuttingGoesOn DEF closeVars, histVars
<1> QED BY <1>2, <1>3, <1>5, <1>6 DEF SocketInv

LEMMA SocketClosesStep ==
  ASSUME WebSocketAssumption, SocketInv, NEW c \in Conns, SocketCloses(c)
  PROVE  SocketInv'
<1>1. TypeOK /\ Shutting /\ \A d \in Conns : ConnInv(d)
  BY DEF SocketInv
<1>2. /\ chain[c] \in Seq(Frames) /\ sent[c] \in Frames /\ latest[c] \in Frames
      /\ MaxFrames \in Nat /\ socket[c] \in {"closing", "ending"}
      /\ socket' = [socket EXCEPT ![c] = "closed"] /\ closes' = closes \ {c}
      /\ UNCHANGED <<phase, sent, buffer, running, server, drained, histVars>>
  BY <1>1, Items DEF SocketCloses
<1>3. PICK q \in Seq(Frames) :
        /\ chain' = [chain EXCEPT ![c] = q]
        /\ InOrder(q, latest[c], sent[c])
        /\ phase[c] = "registered" => Ends(q)
        /\ phase[c] # "registered" => q = chain[c]
        /\ \A x : x \in ToSet(q) \ {Bye} <=> x \in ToSet(chain[c]) \ {Bye}
  <2>1. InOrder(chain[c], latest[c], sent[c])
        /\ (phase[c] = "registered" => ~Ends(chain[c]))
    BY <1>1, <1>2 DEF ConnInv, Orderly, Admission
  <2>2. CASE phase[c] = "registered"
    <3> DEFINE s == chain[c]
    <3> DEFINE lo == latest[c]
    <3> DEFINE hi == sent[c]
    <3>1. /\ s \in Seq(Frames) /\ lo \in Frames /\ hi \in Frames /\ MaxFrames \in Nat
          /\ InOrder(s, lo, hi) /\ ~Ends(s)
      BY <1>2, <2>1, <2>2
    <3> HIDE DEF s, lo, hi
    <3>2. /\ Append(s, Bye) \in Seq(Frames)
          /\ InOrder(Append(s, Bye), lo, hi)
          /\ Ends(Append(s, Bye))
          /\ \A x : x \in ToSet(Append(s, Bye)) <=> x \in ToSet(s) \/ x = Bye
      BY <3>1, ByeAppended
    <3>3. chain' = [chain EXCEPT ![c] = Append(s, Bye)]
      BY <2>2 DEF SocketCloses, Enqueued, s
    <3> QED BY <2>2, <3>2, <3>3 DEF s, lo, hi
  <2>3. CASE phase[c] # "registered"
    BY <1>1, <1>2, <2>1, <2>3 DEF SocketCloses, TypeOK
  <2> QED BY <2>2, <2>3
<1>4. TypeOK'
  <2>1. chain' \in [Conns -> Seq(0 .. MaxFrames)]
    BY <1>1, <1>3 DEF TypeOK, Frames
  <2> QED BY <1>1, <1>2, <2>1 DEF TypeOK, histVars
<1>5. ASSUME NEW d \in Conns, d # c PROVE ConnInv(d)'
  BY <1>1, <1>2, <1>3, <1>5, Untouched DEF TypeOK, histVars
<1>6. /\ socket'[c] = "closed" /\ chain'[c] = q
      /\ phase'[c] = phase[c] /\ sent'[c] = sent[c] /\ buffer'[c] = buffer[c]
      /\ running'[c] = running[c] /\ latest'[c] = latest[c]
      /\ overflowed'[c] = overflowed[c]
  BY <1>1, <1>2, <1>3 DEF TypeOK, histVars
<1>7. ConnInv(c)'
  <2>1. Orderly(c)'
    BY <1>1, <1>3, <1>6 DEF ConnInv, Orderly
  <2>2. Admission(c)'
    BY <1>1, <1>2, <1>3, <1>6 DEF ConnInv, Admission
  <2>3. Accounted(c)'
    <3>1. Pending(c)' = Pending(c)
      BY <1>3, <1>6 DEF Pending
    <3> QED BY <1>1, <1>6, <3>1 DEF ConnInv, Accounted
  <2> QED BY <2>1, <2>2, <2>3 DEF ConnInv
<1>8. Shutting'
  <2>1. \A d \in Conns \ {c} : (LastWord(d)' <=> LastWord(d)) /\ (Live(d)' <=> Live(d))
    BY <1>1, <1>2, <1>3 DEF LastWord, Live, TypeOK
  <2>2. Live(c) /\ ~Live(c)'
    BY <1>2, <1>6 DEF Live
  <2>3. server # "closed"
    BY <1>1, <2>2 DEF Shutting, ClientsLeft
  <2>4. \A d \in Conns : d \in closes => d \in closes' \/ ~Live(d)'
    BY <1>2, <2>2
  <2>5. \A d \in Conns : Live(d)' => Live(d) /\ server # "closed"
    BY <2>1, <2>2, <2>3
  <2>6. \A d \in Conns : LastWord(d)' => LastWord(d) \/ (Live(d) /\ ~Live(d)')
    BY <2>1, <2>2
  <2> QED BY <1>1, <1>2, <2>4, <2>5, <2>6, ShuttingGoesOn DEF histVars
<1> QED BY <1>4, <1>5, <1>7, <1>8 DEF SocketInv

-----------------------------------------------------------------------------
(* The dispatch chain                                                       *)

LEMMA HandlerStartsStep ==
  ASSUME WebSocketAssumption, SocketInv, NEW c \in Conns, HandlerStarts(c)
  PROVE  SocketInv'
<1>1. TypeOK /\ Shutting /\ \A d \in Conns : ConnInv(d)
  BY DEF SocketInv
<1> DEFINE h == Head(chain[c])
<1> DEFINE t == Tail(chain[c])
<1>2. /\ chain[c] \in Seq(Frames) /\ sent[c] \in Frames /\ latest[c] \in Frames
      /\ MaxFrames \in Nat /\ chain[c] # <<>> /\ running[c] = {} /\ phase[c] = "registered"
      /\ Contains(chain[c], Bye) <=> Ends(chain[c])
  BY <1>1, Items DEF HandlerStarts, PreviousEnded
<1>3. /\ InOrder(chain[c], latest[c], sent[c]) /\ buffer[c] = <<>>
      /\ Ends(chain[c]) <=> socket[c] = "closed"
      /\ InOrder(buffer[c], 0, sent[c])
  BY <1>1, <1>2 DEF ConnInv, Orderly, Admission
<1>4. /\ t \in Seq(Frames) /\ h \in Frames
      /\ h = Bye => t = <<>> /\ Ends(chain[c])
      /\ h # Bye => /\ latest[c] < h /\ h <= sent[c]
                    /\ InOrder(t, h, sent[c])
                    /\ Ends(t) <=> Ends(chain[c])
      /\ \A x : x \in ToSet(chain[c]) <=> x = h \/ x \in ToSet(t)
  <2> DEFINE s == chain[c]
  <2> DEFINE lo == latest[c]
  <2> DEFINE hi == sent[c]
  <2>1. /\ s \in Seq(Frames) /\ lo \in Frames /\ hi \in Frames
        /\ InOrder(s, lo, hi) /\ s # <<>>
    BY <1>2, <1>3
  <2> HIDE DEF s, lo, hi
  <2>2. /\ Tail(s) \in Seq(Frames) /\ Head(s) \in Frames
        /\ Head(s) = Bye => Tail(s) = <<>> /\ Ends(s)
        /\ Head(s) # Bye => /\ lo < Head(s) /\ Head(s) <= hi
                            /\ InOrder(Tail(s), Head(s), hi)
                            /\ Ends(Tail(s)) <=> Ends(s)
        /\ \A x : x \in ToSet(s) <=> x = Head(s) \/ x \in ToSet(Tail(s))
    BY <2>1, Dequeued
  <2> QED BY <2>2 DEF s, lo, hi
<1>5. /\ chain' = [chain EXCEPT ![c] = t]
      /\ running' = [running EXCEPT ![c] = {h}]
      /\ UNCHANGED <<socket, sent, buffer, closeVars, overflowed, unanswered>>
      /\ h = Bye => phase' = [phase EXCEPT ![c] = "unregistered"] /\ latest' = latest
      /\ h # Bye => latest' = [latest EXCEPT ![c] = h] /\ phase' = phase
  <2>1. /\ running' = [running EXCEPT ![c] = @ \union {h}]
        /\ chain' = [chain EXCEPT ![c] = Tail(@)]
        /\ IF h = Bye
           THEN phase' = [phase EXCEPT ![c] = "unregistered"] /\ UNCHANGED latest
           ELSE latest' = [latest EXCEPT ![c] = h] /\ UNCHANGED phase
        /\ UNCHANGED <<socket, sent, buffer, closeVars, overflowed, unanswered>>
    BY DEF HandlerStarts
  <2>2. running[c] \union {h} = {h}
    BY <1>2
  <2>3. [running EXCEPT ![c] = @ \union {h}] = [running EXCEPT ![c] = {h}]
    BY <2>2
  <2> QED BY <2>1, <2>3
<1> HIDE DEF h, t
<1>6. TypeOK'
  <2>1. chain' \in [Conns -> Seq(0 .. MaxFrames)]
    BY <1>1, <1>4, <1>5 DEF TypeOK, Frames
  <2>2. running' \in [Conns -> {{}} \union {{work} : work \in 0 .. MaxFrames}]
    <3>1. {h} \in {{}} \union {{work} : work \in 0 .. MaxFrames}
      BY <1>4 DEF Frames
    <3> QED BY <1>1, <1>5, <3>1 DEF TypeOK
  <2>3. latest' \in [Conns -> 0 .. MaxFrames]
    BY <1>1, <1>4, <1>5 DEF TypeOK, Frames
  <2>4. phase' \in [Conns -> {"none", "connecting", "refused", "registered", "unregistered"}]
    BY <1>1, <1>5 DEF TypeOK
  <2> QED BY <1>1, <1>5, <2>1, <2>2, <2>3, <2>4 DEF TypeOK, closeVars
<1>7. ASSUME NEW d \in Conns, d # c PROVE ConnInv(d)'
  <2>1. phase'[d] = phase[d] /\ latest'[d] = latest[d]
    BY <1>1, <1>5, <1>7 DEF TypeOK
  <2>2. chain'[d] = chain[d] /\ running'[d] = running[d]
    BY <1>1, <1>5, <1>7 DEF TypeOK
  <2> QED BY <1>1, <1>5, <2>1, <2>2, Untouched
<1>8. /\ chain'[c] = t /\ running'[c] = {h} /\ socket'[c] = socket[c] /\ sent'[c] = sent[c]
      /\ buffer'[c] = <<>> /\ overflowed'[c] = overflowed[c]
      /\ h = Bye => phase'[c] = "unregistered" /\ latest'[c] = latest[c]
      /\ h # Bye => phase'[c] = "registered" /\ latest'[c] = h
  BY <1>1, <1>2, <1>3, <1>5 DEF TypeOK
<1>9. ConnInv(c)'
  <2>1. Orderly(c)'
    <3>1. InOrder(<<>>, latest[c], sent[c]) /\ latest[c] <= sent[c]
      BY <1>1, EmptyInOrder DEF ConnInv, Orderly
    <3> QED BY <1>3, <1>4, <1>8, <3>1 DEF Orderly
  <2>2. Admission(c)'
    <3>1. phase[c] # "none" /\ socket[c] # "none"
      BY <1>1, <1>2 DEF ConnInv, Admission
    <3>2. CASE h = Bye
      BY <1>3, <1>4, <1>8, <3>1, <3>2 DEF Admission
    <3>3. CASE h # Bye
      BY <1>3, <1>4, <1>8, <3>1, <3>3 DEF Admission
    <3> QED BY <3>2, <3>3
  <2>3. Accounted(c)'
    <3> SUFFICES ASSUME h # Bye, NEW n \in 1 .. sent[c]
                 PROVE  (n \in overflowed[c] \union Pending(c) \/ n <= latest[c])'
      BY <1>8 DEF Accounted
    <3>1. n \in overflowed[c] \/ n \in Pending(c) \/ n <= latest[c]
      BY <1>1, <1>2 DEF ConnInv, Accounted
    <3>2. n \in Pending(c) => n \in Pending(c)' \/ n = h
      BY <1>3, <1>4, <1>8 DEF Pending
    <3>3. n <= latest[c] => n <= h
      BY <1>2, <1>4 DEF Frames
    <3>4. n = h => n <= h
      BY <1>2 DEF Frames
    <3> QED BY <1>8, <3>1, <3>2, <3>3, <3>4
  <2> QED BY <2>1, <2>2, <2>3 DEF ConnInv
<1>10. Shutting'
  <2>1. LastWord(c)' => LastWord(c)
    <3>1. Contains(t, Bye) <=> Ends(t)
      BY DEF Contains, Ends
    <3>2. ~Ends(<<>>)
      BY EmptyInOrder
    <3> QED BY <1>2, <1>4, <1>8, <3>1, <3>2 DEF LastWord
  <2>2. \A d \in Conns \ {c} : LastWord(d)' <=> LastWord(d)
    BY <1>1, <1>5 DEF LastWord, TypeOK
  <2>3. \A d \in Conns : Live(d)' => Live(d) /\ server # "closed"
    BY <1>1, <1>5 DEF Live, Shutting, ClientsLeft
  <2>4. \A d \in Conns : LastWord(d)' => LastWord(d) \/ (Live(d) /\ ~Live(d)')
    BY <2>1, <2>2
  <2> QED BY <1>1, <1>5, <2>3, <2>4, ShuttingGoesOn DEF closeVars
<1> QED BY <1>6, <1>7, <1>9, <1>10 DEF SocketInv

LEMMA HandlerEndsStep ==
  ASSUME WebSocketAssumption, SocketInv, NEW c \in Conns, HandlerEnds(c)
  PROVE  SocketInv'
<1>1. TypeOK /\ Shutting /\ \A d \in Conns : ConnInv(d)
  BY DEF SocketInv
<1>2. /\ running' = [running EXCEPT ![c] = {}]
      /\ UNCHANGED <<phase, socket, sent, buffer, chain, closeVars, histVars>>
  <2>1. PICK work \in running[c] : running' = [running EXCEPT ![c] = @ \ {work}]
    BY DEF HandlerEnds
  <2>2. running[c] \ {work} = {}
    <3>1. running[c] \in {{}} \union {{w} : w \in 0 .. MaxFrames}
      BY <1>1 DEF TypeOK
    <3>2. running[c] = {work}
      BY <2>1, <3>1
    <3> QED BY <3>2
  <2> QED BY <2>1, <2>2 DEF HandlerEnds
<1>3. TypeOK'
  <2>1. running' \in [Conns -> {{}} \union {{work} : work \in 0 .. MaxFrames}]
    BY <1>1, <1>2 DEF TypeOK
  <2> QED BY <1>1, <1>2, <2>1 DEF TypeOK, closeVars, histVars
<1>4. ASSUME NEW d \in Conns, d # c PROVE ConnInv(d)'
  BY <1>1, <1>2, <1>4, Untouched DEF TypeOK, histVars
<1>5. ConnInv(c)'
  <2>1. running'[c] = {}
    BY <1>1, <1>2 DEF TypeOK
  <2>2. Orderly(c)' /\ Accounted(c)'
    BY <1>1, <1>2 DEF ConnInv, Orderly, Accounted, Pending, histVars
  <2>3. Admission(c)'
    BY <1>1, <1>2, <2>1 DEF ConnInv, Admission, histVars
  <2> QED BY <2>2, <2>3 DEF ConnInv
<1>6. Shutting'
  <2>1. \A d \in Conns : LastWord(d)' => LastWord(d)
    BY <1>1, <1>2 DEF LastWord, TypeOK
  <2>2. \A d \in Conns : Live(d)' => Live(d) /\ server # "closed"
    BY <1>1, <1>2 DEF Live, Shutting, ClientsLeft
  <2> QED BY <1>1, <1>2, <2>1, <2>2, ShuttingGoesOn DEF closeVars, histVars
<1> QED BY <1>3, <1>4, <1>5, <1>6 DEF SocketInv

-----------------------------------------------------------------------------
(* close()                                                                  *)

LEMMA CloseBegins ==
  ASSUME WebSocketAssumption, SocketInv, Close
  PROVE  SocketInv'
<1>1. TypeOK /\ \A c \in Conns : ConnInv(c)
  BY DEF SocketInv
<1>2. /\ server' = "closing" /\ closes' = {c \in Conns : Live(c)}
      /\ UNCHANGED <<phase, sent, buffer, chain, running, drained, histVars>>
      /\ \A c \in Conns : socket'[c] = IF socket[c] = "open" THEN "closing" ELSE socket[c]
  BY DEF Close
<1>3. TypeOK'
  <2>1. socket' \in [Conns -> {"none", "open", "closing", "ending", "closed"}]
    BY <1>1 DEF Close, TypeOK
  <2> QED BY <1>1, <1>2, <2>1 DEF TypeOK, histVars
<1>4. ASSUME NEW c \in Conns PROVE ConnInv(c)'
  <2>1. /\ socket'[c] = "none" <=> socket[c] = "none"
        /\ socket'[c] = "closed" <=> socket[c] = "closed"
    BY <1>2
  <2>2. Orderly(c)' /\ Accounted(c)'
    BY <1>1, <1>2 DEF ConnInv, Orderly, Accounted, Pending, histVars
  <2>3. Admission(c)'
    BY <1>1, <1>2, <2>1 DEF ConnInv, Admission, histVars
  <2> QED BY <2>2, <2>3 DEF ConnInv
<1>5. Shutting'
  <2>1. \A c \in Conns : Live(c)' => Live(c)
    BY <1>2 DEF Live
  <2> QED BY <1>2, <2>1 DEF Shutting
<1> QED BY <1>3, <1>4, <1>5 DEF SocketInv

(* The steps of close() leave every connection alone.                        *)
LEMMA CloseGoesOn ==
  ASSUME WebSocketAssumption, SocketInv, CloseStep
  PROVE  SocketInv'
<1>1. TypeOK /\ Shutting /\ \A c \in Conns : ConnInv(c)
  BY DEF SocketInv
<1>2. UNCHANGED <<connVars, latest, overflowed>>
  BY DEF CloseStep, CloseTimeout, Drain, DrainCompletes, DrainTimesOut, Closed, histVars
<1>3. \A c \in Conns : ConnInv(c)'
  BY <1>1, <1>2, Untouched DEF connVars
<1>4. /\ \A c \in Conns : Live(c)' <=> Live(c)
      /\ InFlightDisconnects' = InFlightDisconnects
      /\ ClientsLeft' <=> ClientsLeft
      /\ InFlightDisconnects \subseteq Conns
  BY <1>2 DEF connVars, Live, InFlightDisconnects, ClientsLeft
<1>5. TypeOK' /\ Shutting'
  <2>1. ASSUME NEW c \in Conns, CloseTimeout(c) PROVE TypeOK' /\ Shutting'
    <3>1. /\ server = "closing" /\ server' = server /\ drained' = drained
          /\ closes' = closes \ {c} /\ unanswered' = unanswered \union {c}
      BY <2>1 DEF CloseTimeout
    <3>2. TypeOK'
      BY <1>1, <1>2, <3>1 DEF TypeOK, connVars
    <3>3. Shutting'
      BY <1>1, <1>4, <3>1 DEF Shutting
    <3> QED BY <3>2, <3>3
  <2>2. CASE Drain
    <3>1. /\ server = "closing" /\ closes = {} /\ server' = "draining"
          /\ drained' = InFlightDisconnects /\ closes' = closes /\ unanswered' = unanswered
      BY <2>2 DEF Drain, SocketsClosed, histVars
    <3>2. TypeOK'
      BY <1>1, <1>2, <1>4, <3>1 DEF TypeOK, connVars
    <3>3. Shutting'
      BY <1>1, <1>4, <3>1 DEF Shutting
    <3> QED BY <3>2, <3>3
  <2>3. CASE DrainCompletes
    <3>1. /\ server = "draining" /\ drained \intersect InFlightDisconnects = {}
          /\ server' = "ending"
          /\ drained' = drained /\ closes' = closes /\ unanswered' = unanswered
      BY <2>3 DEF DrainCompletes, histVars
    <3>2. TypeOK'
      BY <1>1, <1>2, <3>1 DEF TypeOK, connVars
    <3>3. Shutting'
      BY <1>1, <1>4, <3>1 DEF Shutting
    <3> QED BY <3>2, <3>3
  <2>4. CASE DrainTimesOut
    <3>1. /\ server = "draining" /\ server' = "ending"
          /\ unanswered' = unanswered \union (drained \intersect InFlightDisconnects)
          /\ drained' = drained /\ closes' = closes
      BY <2>4 DEF DrainTimesOut
    <3>2. TypeOK'
      BY <1>1, <1>2, <1>4, <3>1 DEF TypeOK, connVars
    <3>3. Shutting'
      BY <1>1, <1>4, <3>1 DEF Shutting
    <3> QED BY <3>2, <3>3
  <2>5. CASE Closed
    <3>1. /\ server = "ending" /\ ~ClientsLeft /\ server' = "closed"
          /\ drained' = drained /\ closes' = closes /\ unanswered' = unanswered
      BY <2>5 DEF Closed, histVars
    <3>2. TypeOK'
      BY <1>1, <1>2, <3>1 DEF TypeOK, connVars
    <3>3. Shutting'
      BY <1>1, <1>4, <3>1 DEF Shutting
    <3> QED BY <3>2, <3>3
  <2> QED BY <2>1, <2>2, <2>3, <2>4, <2>5 DEF CloseStep
<1> QED BY <1>3, <1>5 DEF SocketInv

LEMMA SocketInvStep ==
  ASSUME WebSocketAssumption, SocketInv, [Next]_vars
  PROVE  SocketInv'
<1>1. ASSUME NEW c \in Conns, PeerCloses(c) PROVE SocketInv'
  BY <1>1, SocketMoves DEF PeerCloses
<1>2. ASSUME NEW c \in Conns, DeleteConnection(c) PROVE SocketInv'
  BY <1>2, SocketMoves DEF DeleteConnection
<1>3. CASE UNCHANGED vars
  <2>1. \A c \in Conns : ConnInv(c)'
    BY <1>3, Untouched DEF SocketInv, vars, connVars, histVars
  <2>2. TypeOK'
    BY <1>3 DEF SocketInv, TypeOK, vars, connVars, closeVars, histVars
  <2>3. Shutting'
    BY <1>3 DEF SocketInv, Shutting, Live, InFlightDisconnects, ClientsLeft, vars,
                connVars, closeVars, histVars
  <2> QED BY <2>1, <2>2, <2>3 DEF SocketInv
<1> QED BY <1>1, <1>2, <1>3, UpgradeStep, AllowedStep, DeniedStep, FrameArrivesStep,
           SocketClosesStep, HandlerStartsStep, HandlerEndsStep, CloseBegins, CloseGoesOn
        DEF Next

-----------------------------------------------------------------------------
(* What it shows                                                            *)

(* Whatever the clients, handlers and timers do: the frames of a connection  *)
(* queue up in the order of their arrival, none is lost, handlers run for    *)
(* admitted connections only, and a shutdown knows what it waits for.        *)
THEOREM SocketInvariant ==
  ASSUME WebSocketAssumption
  PROVE  Spec => []SocketInv
<1>1. Init => SocketInv
  BY InitSocketInv
<1>2. SocketInv /\ [Next]_vars => SocketInv'
  BY SocketInvStep
<1> QED BY <1>1, <1>2, PTL DEF Spec

(* At most one handler of a connection runs; the buffer of a client without  *)
(* a verdict is bounded.                                                     *)
THEOREM SocketTypeCorrect ==
  ASSUME WebSocketAssumption
  PROVE  Spec => []TypeOK
<1>1. SocketInv => TypeOK
  BY DEF SocketInv
<1> QED BY <1>1, SocketInvariant, PTL

LEMMA FramesAccounted ==
  ASSUME WebSocketAssumption, SocketInv
  PROVE  NothingLost
<1> SUFFICES ASSUME NEW c \in Conns
             PROVE  /\ phase[c] \in {"connecting", "registered"} =>
                         \A f \in 1 .. sent[c] :
                           f \in overflowed[c] \union Pending(c) \/ f <= latest[c]
                    /\ phase[c] = "unregistered" => Pending(c) = {}
                    /\ phase[c] = "registered" /\ socket[c] = "closed" =>
                         Contains(chain[c], Bye)
  BY DEF NothingLost
<1>1. TypeOK /\ ConnInv(c)
  BY DEF SocketInv
<1>2. phase[c] = "unregistered" => Pending(c) = {}
  BY <1>1, EmptyInOrder DEF ConnInv, Admission, Pending
<1>3. phase[c] = "registered" /\ socket[c] = "closed" => Contains(chain[c], Bye)
  BY <1>1, Items DEF ConnInv, Admission
<1> QED BY <1>1, <1>2, <1>3 DEF ConnInv, Accounted

(* Every frame of an admitted connection that did not overflow the buffer    *)
(* reaches a handler before $disconnect; a closed socket's $disconnect is    *)
(* queued.                                                                   *)
THEOREM SocketLosesNothing ==
  ASSUME WebSocketAssumption
  PROVE  Spec => []NothingLost
<1>1. SocketInv => NothingLost
  BY FramesAccounted
<1> QED BY <1>1, SocketInvariant, PTL

LEMMA NothingLeftOpen ==
  ASSUME WebSocketAssumption, SocketInv
  PROVE  ByeBeforeClosed
<1> SUFFICES ASSUME server = "closed", NEW c \in Conns
             PROVE  /\ ~Live(c)
                    /\ c \notin unanswered => /\ chain[c] = <<>> /\ running[c] = {}
                                             /\ phase[c] # "registered"
  BY DEF ByeBeforeClosed
<1>1. TypeOK /\ ConnInv(c) /\ Shutting
  BY DEF SocketInv
<1>2. ~Live(c)
  BY <1>1 DEF Shutting, ClientsLeft
<1>3. LastWord(c) => c \in unanswered
  BY <1>1 DEF Shutting, InFlightDisconnects, LastWord
<1>4. phase[c] = "registered" => LastWord(c)
  <2> SUFFICES ASSUME phase[c] = "registered" PROVE LastWord(c)
    OBVIOUS
  <2>1. socket[c] # "none"
    BY <1>1 DEF ConnInv, Admission
  <2>2. socket[c] = "closed"
    BY <1>1, <1>2, <2>1 DEF TypeOK, Live
  <2>3. Ends(chain[c])
    BY <1>1, <2>2 DEF ConnInv, Admission
  <2> QED BY <1>1, <2>3, Items DEF LastWord
<1>5. phase[c] = "unregistered" => chain[c] = <<>>
  BY <1>1 DEF ConnInv, Admission
<1>6. phase[c] = "unregistered" /\ ~LastWord(c) => running[c] = {}
  BY <1>1 DEF ConnInv, Admission, LastWord
<1>7. phase[c] \in {"none", "connecting", "refused"} => chain[c] = <<>> /\ running[c] = {}
  BY <1>1 DEF ConnInv, Admission
<1> QED BY <1>1, <1>2, <1>3, <1>4, <1>5, <1>6, <1>7 DEF TypeOK

(* A server that has closed has no socket left, and no handler but those of  *)
(* connections it has stopped waiting for.                                   *)
THEOREM SocketClosesCleanly ==
  ASSUME WebSocketAssumption
  PROVE  Spec => []ByeBeforeClosed
<1>1. SocketInv => ByeBeforeClosed
  BY NothingLeftOpen
<1> QED BY <1>1, SocketInvariant, PTL

-----------------------------------------------------------------------------
(* WebSocketServer implements OrderedDelivery                               *)

(* What OrderedDelivery sees of a connection.                                *)
Link(c) ==
  CASE phase[c] = "registered" -> "live"
    [] phase[c] = "unregistered" -> "gone"
    [] OTHER -> "absent"

Busy == {c \in Conns : running[c] # {}}

DeliveryUnchanged ==
  /\ \A c \in Conns : Link(c)' = Link(c)
  /\ Busy' = Busy
  /\ latest' = latest

LEMMA Stutters ==
  ASSUME DeliveryUnchanged
  PROVE  UNCHANGED Delivery!odVars
BY DEF DeliveryUnchanged, Delivery!odVars, Link, Busy

(* A connection that is admitted. *)
LEMMA Admits ==
  ASSUME TypeOK, NEW c \in Conns,
         phase[c] \in {"none", "connecting"},
         phase' = [phase EXCEPT ![c] = "registered"],
         running' = running, latest' = latest
  PROVE  Delivery!Admit(c)
<1>1. /\ Link(c) = "absent" /\ Link(c)' = "live"
      /\ \A d \in Conns \ {c} : Link(d)' = Link(d)
  BY DEF TypeOK, Link
<1>2. [d \in Conns |-> Link(d)]' = [[d \in Conns |-> Link(d)] EXCEPT ![c] = "live"]
  BY <1>1
<1> QED BY <1>1, <1>2 DEF Delivery!Admit, Link

(* One that is not, or has long been. *)
LEMMA NotAdmitted ==
  ASSUME TypeOK, NEW c \in Conns, NEW s \in {"connecting", "refused"},
         phase[c] \in {"none", "connecting"},
         phase' = [phase EXCEPT ![c] = s],
         running' = running, latest' = latest
  PROVE  DeliveryUnchanged
BY DEF TypeOK, DeliveryUnchanged, Link, Busy

LEMMA Starts ==
  ASSUME WebSocketAssumption, SocketInv, NEW c \in Conns, HandlerStarts(c)
  PROVE  \/ Delivery!Disconnect(c)
         \/ \E f \in 1 .. MaxFrames : Delivery!Deliver(c, f)
<1> DEFINE h == Head(chain[c])
<1>1. TypeOK /\ ConnInv(c)
  BY DEF SocketInv
<1>2. /\ chain[c] \in Seq(Frames) /\ sent[c] \in Frames /\ latest[c] \in Frames
      /\ MaxFrames \in Nat /\ chain[c] # <<>> /\ running[c] = {} /\ phase[c] = "registered"
      /\ InOrder(chain[c], latest[c], sent[c])
  BY <1>1, Items DEF HandlerStarts, PreviousEnded, ConnInv, Orderly
<1>3. h \in Frames /\ (h # Bye => latest[c] < h)
  <2> DEFINE s == chain[c]
  <2> DEFINE lo == latest[c]
  <2> DEFINE hi == sent[c]
  <2>1. /\ s \in Seq(Frames) /\ lo \in Frames /\ hi \in Frames
        /\ InOrder(s, lo, hi) /\ s # <<>>
    BY <1>2
  <2> HIDE DEF s, lo, hi
  <2>2. Head(s) \in Frames /\ (Head(s) # Bye => lo < Head(s))
    BY <2>1, Dequeued
  <2> QED BY <2>2 DEF s, lo
<1>4. /\ running' = [running EXCEPT ![c] = @ \union {h}]
      /\ h = Bye => phase' = [phase EXCEPT ![c] = "unregistered"] /\ latest' = latest
      /\ h # Bye => latest' = [latest EXCEPT ![c] = h] /\ phase' = phase
  BY DEF HandlerStarts
<1> HIDE DEF h
<1>5. c \notin Busy /\ Busy' = Busy \union {c} /\ Link(c) = "live"
  <2>1. running'[c] # {} /\ \A d \in Conns \ {c} : running'[d] = running[d]
    BY <1>1, <1>4 DEF TypeOK
  <2> QED BY <1>2, <2>1 DEF Busy, Link
<1>6. CASE h = Bye
  <2>1. Link(c)' = "gone" /\ \A d \in Conns \ {c} : Link(d)' = Link(d)
    BY <1>1, <1>4, <1>6 DEF TypeOK, Link
  <2>2. [d \in Conns |-> Link(d)]' = [[d \in Conns |-> Link(d)] EXCEPT ![c] = "gone"]
    BY <2>1
  <2>3. Delivery!Disconnect(c)
    BY <1>4, <1>5, <1>6, <2>2 DEF Delivery!Disconnect, Link, Busy
  <2> QED BY <2>3
<1>7. CASE h # Bye
  <2>1. h \in 1 .. MaxFrames /\ h > latest[c]
    BY <1>2, <1>3, <1>7 DEF Frames, Bye
  <2>2. \A d \in Conns : Link(d)' = Link(d)
    BY <1>4, <1>7 DEF Link
  <2>3. PICK f \in 1 .. MaxFrames : f = h
    BY <2>1
  <2>4. Delivery!Deliver(c, f)
    BY <1>4, <1>5, <1>7, <2>1, <2>2, <2>3 DEF Delivery!Deliver, Link, Busy
  <2> QED BY <2>4
<1> QED BY <1>6, <1>7

LEMMA Finishes ==
  ASSUME SocketInv, NEW c \in Conns, HandlerEnds(c)
  PROVE  Delivery!HandlerEnds(c)
<1>1. TypeOK
  BY DEF SocketInv
<1>2. PICK work \in running[c] : running' = [running EXCEPT ![c] = @ \ {work}]
  BY DEF HandlerEnds
<1>3. running[c] \ {work} = {}
  <2>1. running[c] \in {{}} \union {{w} : w \in 0 .. MaxFrames}
    BY <1>1 DEF TypeOK
  <2>2. running[c] = {work}
    BY <1>2, <2>1
  <2> QED BY <2>2
<1>4. running[c] # {} /\ running'[c] = {} /\ \A d \in Conns \ {c} : running'[d] = running[d]
  BY <1>1, <1>2, <1>3 DEF TypeOK
<1>5. c \in Busy /\ Busy' = Busy \ {c}
  BY <1>4 DEF Busy
<1>6. latest' = latest /\ \A d \in Conns : Link(d)' = Link(d)
  BY DEF HandlerEnds, Link, histVars
<1> QED BY <1>5, <1>6 DEF Delivery!HandlerEnds, Link, Busy

LEMMA ServedInOrder ==
  ASSUME WebSocketAssumption, SocketInv, [Next]_vars
  PROVE  [Delivery!Next]_Delivery!odVars
<1>1. TypeOK /\ \A c \in Conns : ConnInv(c)
  BY DEF SocketInv
<1>2. ASSUME NEW c \in Conns, Upgrade(c)
      PROVE  Delivery!Admit(c) \/ DeliveryUnchanged
  <2>1. phase[c] = "none" /\ running' = running /\ latest' = latest
    BY <1>1, <1>2 DEF Upgrade, ConnInv, Admission, histVars
  <2>2. phase' = [phase EXCEPT ![c] = "registered"] \/ phase' = [phase EXCEPT ![c] = "connecting"]
    BY <1>2 DEF Upgrade, Register
  <2> QED BY <1>1, <2>1, <2>2, Admits, NotAdmitted
<1>3. ASSUME NEW c \in Conns, Allowed(c) \/ Denied(c)
      PROVE  Delivery!Admit(c) \/ DeliveryUnchanged
  <2>1. phase[c] = "connecting" /\ running' = running /\ latest' = latest
    BY <1>3 DEF Allowed, Denied, histVars
  <2>2. phase' = [phase EXCEPT ![c] = "registered"] \/ phase' = [phase EXCEPT ![c] = "refused"]
    BY <1>3 DEF Allowed, Denied, Register
  <2> QED BY <1>1, <2>1, <2>2, Admits, NotAdmitted
<1>4. ASSUME NEW c \in Conns,
             FrameArrives(c) \/ PeerCloses(c) \/ SocketCloses(c) \/ DeleteConnection(c)
      PROVE  DeliveryUnchanged
  BY <1>4 DEF FrameArrives, PeerCloses, SocketCloses, DeleteConnection, DeliveryUnchanged,
              Link, Busy, histVars
<1>5. ASSUME Close \/ CloseStep \/ UNCHANGED vars
      PROVE  DeliveryUnchanged
  <2>1. phase' = phase /\ running' = running /\ latest' = latest
    BY <1>5 DEF Close, CloseStep, CloseTimeout, Drain, DrainCompletes, DrainTimesOut, Closed,
                vars, connVars, histVars
  <2> QED BY <2>1 DEF DeliveryUnchanged, Link, Busy
<1>6. ASSUME NEW c \in Conns, Delivery!Admit(c) PROVE Delivery!Next
  BY <1>6 DEF Delivery!Next
<1>7. ASSUME NEW c \in Conns, HandlerStarts(c) PROVE Delivery!Next
  BY <1>7, Starts DEF Delivery!Next
<1>8. ASSUME NEW c \in Conns, HandlerEnds(c) PROVE Delivery!Next
  BY <1>8, Finishes DEF Delivery!Next
<1> QED BY <1>2, <1>3, <1>4, <1>5, <1>6, <1>7, <1>8, Stutters DEF Next

LEMMA DeliveryBegins == Init => Delivery!Init
<1> SUFFICES ASSUME Init PROVE Delivery!Init
  OBVIOUS
<1>1. \A c \in Conns : Link(c) = "absent"
  BY DEF Init, Link
<1>2. Busy = {}
  BY DEF Init, Busy
<1> QED BY <1>1, <1>2 DEF Init, Delivery!Init, Link, Busy

(* Whatever sockets, verdicts and the shutdown do, the handlers of a         *)
(* connection see its frames one at a time, in the order the client sent     *)
(* them, each at most once, and nothing after $disconnect.                   *)
THEOREM SocketImplementsDelivery ==
  ASSUME WebSocketAssumption
  PROVE  Spec => DeliversInOrder
<1>1. Init => Delivery!Init
  BY DeliveryBegins
<1>2. SocketInv /\ [Next]_vars => [Delivery!Next]_Delivery!odVars
  BY ServedInOrder
<1> QED BY <1>1, <1>2, SocketInvariant, PTL DEF Spec, DeliversInOrder, Delivery!Spec

=============================================================================
