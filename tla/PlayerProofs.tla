---------------------------- MODULE PlayerProofs ----------------------------
(***************************************************************************)
(* Proofs about module Player: for any file, limits, sizes and number of   *)
(* slots, video_thread and main never touch one overlay at a time, the     *)
(* pictures reach the screen in the order they were put in the ring, there *)
(* is always exactly one refresh on its way, and nobody sleeps past what   *)
(* it waits for.                                                           *)
(*                                                                         *)
(* The argument: from the moment video_thread asks for an overlay until    *)
(* main has told it, exactly one FF_ALLOC_EVENT is posted or being         *)
(* handled, and there is room in the ring, so the slot written to is none  *)
(* of those main still has to show.                                        *)
(***************************************************************************)
EXTENDS Player, FiniteSetTheorems, TLAPS

Slot == 0 .. Slots - 1
Waiting == {"alloc", "alloc asleep"}

(* The overlays that were asked for and not answered. *)
Asked == Posted("alloc") + (IF main \in {"make", "tell"} THEN 1 ELSE 0)

Fits ==
  pictq[windex].bmp \in {"none", "made"} /\ pictq[windex].size = codecSize

Overlays ==
  /\ Asked \in {0, 1}
  /\ Asked = 1 => /\ video \in Waiting \/ (quit /\ video \in {"alloced", "ended"})
                  /\ size < Slots /\ ~pictq[windex].allocated
  /\ video \in Waiting /\ Asked = 0 => video = "alloc" /\ pictq[windex].allocated /\ Fits
  /\ video = "alloced" /\ ~quit => Asked = 0 /\ Fits
  /\ video = "fill" => Asked = 0 /\ Fits /\ pictq[windex].bmp = "made"
  /\ main = "tell" => Fits
  /\ \A i \in Slot : pictq[i].bmp = "freed" => main = "make" /\ i = windex

(* Only main makes the count smaller, only video_thread makes it larger. *)
Room ==
  /\ video \in Waiting \cup {"alloced", "fill", "count"} => size < Slots
  /\ video = "slot" => quit \/ size < Slots
  /\ main \in {"show", "take"} => size > 0

(* The slot of the picture k places behind the one that is shown next. *)
Place(k) == (rindex + k) % Slots

Pictures ==
  /\ windex = Place(InRing)
  /\ kept = shown + InRing
  /\ \A k \in 0 .. InRing - 1 :
       pictq[Place(k)].picture = shown + k + 1 /\ pictq[Place(k)].bmp = "made"

Sleepers ==
  /\ video = "get asleep" => videoq = << >>
  /\ audio = "get asleep" => audioq = << >>
  /\ video = "room asleep" => size >= Slots

Reading == reader = "read" => Len(videoq) <= MaxVideo /\ Len(audioq) <= MaxAudio

Starting == reader \in {"start", "open audio", "open video"} => video = "off"

IInv ==
  /\ TypeOK /\ OneRefresh /\ Overlays /\ Room /\ Pictures
  /\ Sleepers /\ Reading /\ PacketsBounded /\ Starting

LEMMA Numbers ==
  /\ Slots \in Nat /\ Slots > 0 /\ MaxVideo \in Nat /\ MaxAudio \in Nat /\ Keys \in Nat
  /\ 0 \notin Sizes
  BY PlayerAssumption DEF PlayerAssumption

LEMMA Modulo ==
  ASSUME NEW a \in 0 .. 2 * Slots - 1
  PROVE  a % Slots = IF a < Slots THEN a ELSE a - Slots
  BY Numbers

(* The places in the ring are slots, and Slots of them in a row are different ones. *)
LEMMA Places ==
  ASSUME TypeOK
  PROVE  /\ \A k \in 0 .. Slots : /\ Place(k) \in Slot
                                  /\ Place(k) = IF rindex + k < Slots THEN rindex + k
                                                                      ELSE rindex + k - Slots
         /\ Place(0) = rindex
<1>1. Slots \in Nat /\ Slots > 0 /\ rindex \in 0 .. Slots - 1
  BY Numbers DEF TypeOK, RingTypes
<1>2. ASSUME NEW k \in 0 .. Slots
      PROVE  Place(k) = IF rindex + k < Slots THEN rindex + k ELSE rindex + k - Slots
  <2>1. PICK a \in 0 .. 2 * Slots - 1 : a = rindex + k
    BY <1>1
  <2>2. a % Slots = IF a < Slots THEN a ELSE a - Slots
    BY Modulo
  <2> QED
    BY <1>1, <2>1, <2>2 DEF Place
<1> QED
  BY <1>1, <1>2 DEF Slot

Where(e) == {i \in DOMAIN events : events[i] = e}

LEMMA PostedCounts ==
  ASSUME TypeOK, NEW e
  PROVE  /\ Posted(e) \in Nat /\ Posted(e) = Cardinality(Where(e))
         /\ IsFiniteSet(Where(e))
<1>1. IsFiniteSet(DOMAIN events)
  BY FS_Interval DEF TypeOK, LoopTypes
<1>2. Where(e) \in SUBSET DOMAIN events
  BY DEF Where
<1>3. IsFiniteSet(Where(e)) /\ Cardinality(Where(e)) \in Nat
  BY <1>1, <1>2, FS_Subset, FS_CardinalityType
<1> QED
  BY <1>3 DEF Posted, Where

LEMMA PushCounts ==
  ASSUME TypeOK, NEW x \in Events, PushEvent(x), NEW e
  PROVE  /\ events' \in Seq(Events)
         /\ Posted(e)' = Posted(e) + IF x = e THEN 1 ELSE 0
<1>n. PICK n \in Nat : n = Len(events)
  BY DEF TypeOK, LoopTypes
<1>1. /\ DOMAIN events = 1 .. n /\ DOMAIN events' = 1 .. n + 1
      /\ events'[n + 1] = x /\ \A i \in 1 .. n : events'[i] = events[i]
      /\ events' \in Seq(Events)
  BY <1>n DEF TypeOK, LoopTypes, PushEvent
<1>2. /\ IsFiniteSet(Where(e)) /\ Cardinality(Where(e)) \in Nat
      /\ Posted(e) = Cardinality(Where(e)) /\ n + 1 \notin Where(e)
  <2>1. n + 1 \notin Where(e)
    BY <1>1 DEF Where
  <2> QED
    BY <2>1, PostedCounts
<1>3. Where(e)' = IF x = e THEN Where(e) \cup {n + 1} ELSE Where(e)
  BY <1>1 DEF Where
<1>4. Cardinality(Where(e) \cup {n + 1}) = Cardinality(Where(e)) + 1
  BY <1>2, FS_AddElement
<1>5. Posted(e)' = Cardinality(Where(e)')
  BY DEF Posted, Where
<1> QED
  BY <1>1, <1>2, <1>3, <1>4, <1>5

LEMMA TakeCounts ==
  ASSUME TypeOK, events # << >>, events' = Tail(events), NEW e
  PROVE  /\ events' \in Seq(Events)
         /\ Head(events) \in Events
         /\ Posted(e)' = Posted(e) - (IF Head(events) = e THEN 1 ELSE 0) /\ Posted(e)' \in Nat
<1>n. PICK n \in Nat : n = Len(events)
  BY DEF TypeOK, LoopTypes
<1>1. /\ n > 0 /\ DOMAIN events = 1 .. n /\ DOMAIN events' = 1 .. n - 1
      /\ Head(events) = events[1] /\ \A i \in 1 .. n - 1 : events'[i] = events[i + 1]
      /\ events' \in Seq(Events)
      /\ Head(events) \in Events
  BY <1>n DEF TypeOK, LoopTypes
<1>2. /\ IsFiniteSet(Where(e)) /\ Cardinality(Where(e)) \in Nat
      /\ Posted(e) = Cardinality(Where(e))
  BY PostedCounts
<1>t. PICK T : T = {i \in 1 .. n - 1 : events[i + 1] = e}
  OBVIOUS
<1>3. Where(e)' = T
  BY <1>1, <1>t DEF Where
<1>4. IsFiniteSet(T)
  <2>1. IsFiniteSet(1 .. n - 1)
    BY FS_Interval
  <2>2. T \in SUBSET (1 .. n - 1)
    BY <1>t
  <2> QED
    BY <2>1, <2>2, FS_Subset
<1>5. Cardinality(Where(e) \ {1}) = Cardinality(T)
  <2> DEFINE f == [i \in T |-> i + 1]
  <2>1. \A i \in T : i \in 1 .. n - 1 /\ i + 1 \in Where(e) \ {1}
    BY <1>1, <1>t DEF Where
  <2>2. \A j \in Where(e) \ {1} : j - 1 \in T /\ (j - 1) + 1 = j
    <3> SUFFICES ASSUME NEW j \in Where(e) \ {1}
                 PROVE  j - 1 \in T /\ (j - 1) + 1 = j
      OBVIOUS
    <3>1. j \in 1 .. n /\ j # 1 /\ events[j] = e
      BY <1>1 DEF Where
    <3>2. j - 1 \in 1 .. n - 1 /\ (j - 1) + 1 = j
      BY <3>1
    <3> QED
      BY <3>1, <3>2, <1>t
  <2>3. f \in [T -> Where(e) \ {1}]
    BY <2>1
  <2>4. \A i, k \in T : f[i] = f[k] => i = k
    BY <2>1
  <2>5. \A j \in Where(e) \ {1} : \E i \in T : f[i] = j
    BY <2>2
  <2>6. f \in Bijection(T, Where(e) \ {1})
    BY <2>3, <2>4, <2>5 DEF Bijection, Injection, Surjection, IsInjective
  <2>7. ExistsBijection(T, Where(e) \ {1})
    BY <2>6 DEF ExistsBijection
  <2> QED
    BY <2>7, <1>4, FS_Bijection
<1>6. 1 \in Where(e) <=> Head(events) = e
  BY <1>1 DEF Where
<1>7. 1 \in Where(e) => Cardinality(Where(e) \ {1}) = Cardinality(Where(e)) - 1
  BY <1>2, FS_RemoveElement
<1>8. 1 \notin Where(e) => Where(e) \ {1} = Where(e)
  OBVIOUS
<1>9. Posted(e)' = Cardinality(T) /\ Posted(e)' \in Nat
  BY <1>3, <1>4, FS_CardinalityType DEF Posted, Where
<1>10. CASE Head(events) = e
  BY <1>1, <1>2, <1>5, <1>6, <1>7, <1>9, <1>10
<1>11. CASE Head(events) # e
  <2>1. Cardinality(Where(e) \ {1}) = Cardinality(Where(e))
    BY <1>6, <1>8, <1>11
  <2> QED
    BY <2>1, <1>1, <1>2, <1>5, <1>9, <1>11
<1> QED
  BY <1>10, <1>11

LEMMA InitIInv == Init => IInv
<1> SUFFICES ASSUME Init PROVE IInv
  OBVIOUS
<1> USE Numbers DEF Init
<1>1. DOMAIN events = {} /\ \A e : Posted(e) = 0
  BY FS_EmptySet DEF Posted
<1>2. TypeOK
  <2>1. Len(File) \in Nat
    BY PlayerAssumption DEF PlayerAssumption
  <2>2. SourceTypes /\ PacketTypes
    <3>1. quit \in BOOLEAN /\ seekReq \in BOOLEAN
      OBVIOUS
    <3>2. position \in 0 .. Len(File) /\ reader = "start" /\ audio = "off"
      BY <2>1
    <3>3. videoq \in Seq(1 .. Len(File)) /\ audioq \in Seq(1 .. Len(File))
      OBVIOUS
    <3> QED
      BY <3>1, <3>2, <3>3 DEF SourceTypes, PacketTypes
  <2>3. RingTypes
    BY DEF RingTypes
  <2>4. LoopTypes
    BY DEF LoopTypes
  <2> QED
    BY <2>2, <2>3, <2>4 DEF TypeOK, VideoPlaces
<1>3. OneRefresh /\ Overlays /\ Room
  <2>1. Posted("refresh") = 0 /\ Posted("alloc") = 0
    BY <1>1
  <2>2. OneRefresh /\ Asked = 0
    BY <2>1 DEF OneRefresh, Asked
  <2>3. \A i \in Slot : pictq[i].bmp = "none"
    BY DEF Slot
  <2>4. video = "off" /\ main = "wait"
    OBVIOUS
  <2> HIDE DEF Init
  <2>5. Overlays
    BY <2>2, <2>3, <2>4 DEF Overlays, Waiting
  <2>6. Room
    BY <2>4 DEF Room, Waiting
  <2> QED
    BY <2>2, <2>5, <2>6
<1>4. Pictures
  BY <1>2, Places DEF Pictures, InRing
<1>5. Sleepers /\ Reading /\ PacketsBounded /\ Starting
  BY DEF Sleepers, Reading, PacketsBounded, Starting
<1> QED
  BY <1>2, <1>3, <1>4, <1>5 DEF IInv

(* The chain of refreshes: a step that neither fires a timer, nor starts one, *)
(* nor takes a refresh event does not touch it.                               *)
LEMMA ChainKept ==
  ASSUME IInv, timers' = timers, Posted("refresh")' = Posted("refresh"),
         main' = main \/ (main # "refresh" /\ main' # "refresh")
  PROVE  OneRefresh'
  BY PostedCounts DEF IInv, OneRefresh, TypeOK

(* Where video_thread is when it has asked for nothing and has no picture in hand. *)
Apart == {"off", "get", "get asleep", "decode", "room", "room asleep", "slot"}

LEMMA Counts ==
  ASSUME IInv
  PROVE  /\ Posted("alloc") \in Nat /\ Posted("refresh") \in Nat /\ Asked \in {0, 1}
         /\ Asked = Posted("alloc") + IF main \in {"make", "tell"} THEN 1 ELSE 0
         /\ video \in Apart \cup {"fill", "count"} => Asked = 0
         /\ Asked = 0 => main \notin {"make", "tell"} /\ Posted("alloc") = 0
         /\ main \in {"make", "tell"} => Asked = 1 /\ Posted("alloc") = 0
<1>1. Posted("alloc") \in Nat /\ Posted("refresh") \in Nat
  BY PostedCounts DEF IInv
<1>2. Asked \in {0, 1} /\ (video \in Apart \cup {"fill", "count"} => Asked = 0)
  BY DEF IInv, Overlays, Apart, Waiting
<1>3. Asked = Posted("alloc") + IF main \in {"make", "tell"} THEN 1 ELSE 0
  BY DEF Asked
<1> QED
  BY <1>1, <1>2, <1>3

(* A step that leaves the ring, main and the requests alone. *)
LEMMA RingLeftAlone ==
  ASSUME IInv, UNCHANGED <<quit, pictq, size, rindex, windex, main, kept, shown>>,
         Posted("alloc")' = Posted("alloc"),
         codecSize' = codecSize \/ video = "decode",
         video' = video \/ (video \in Apart /\ video' \in Apart \cup {"ended"}),
         video' = "slot" => quit \/ size < Slots
  PROVE  Overlays' /\ Room' /\ Pictures'
<1> USE DEF IInv
<1>1. Asked' = Asked
  BY DEF Asked
<1>2. Overlays'
  <2>1. CASE video' = video /\ codecSize' = codecSize
    BY <1>1, <2>1 DEF Overlays, Fits, Waiting
  <2>2. CASE video \in Apart
    <3>1. Asked = 0 /\ main # "tell" /\ video' \in Apart \cup {"ended"}
      BY <2>2, Counts
    <3> QED
      BY <1>1, <3>1 DEF Overlays, Apart, Waiting
  <2> QED
    BY <2>1, <2>2 DEF Apart
<1>3. Room'
  BY DEF Room, Apart, Waiting
<1>4. InRing' = InRing
  BY DEF InRing, Apart
<1>5. Pictures'
  BY <1>4 DEF Pictures, Place
<1> QED
  BY <1>2, <1>3, <1>5

-----------------------------------------------------------------------------
(* The user, the timer, decode_thread and the audio thread *)

(* What the operations on a sequence do to its length. *)
LEMMA Lengths ==
  ASSUME NEW S, NEW q \in Seq(S)
  PROVE  /\ Len(q) \in Nat /\ Len(<< >>) = 0
         /\ \A x \in S : Append(q, x) \in Seq(S) /\ Len(Append(q, x)) = Len(q) + 1
         /\ q # << >> => Tail(q) \in Seq(S) /\ Len(Tail(q)) = Len(q) - 1
  OBVIOUS

LEMMA QueueLengths ==
  ASSUME TypeOK
  PROVE  Len(videoq) \in Nat /\ Len(audioq) \in Nat
  BY Lengths DEF TypeOK, PacketTypes

LEMMA SameCounts ==
  ASSUME events' = events
  PROVE  Posted("alloc")' = Posted("alloc") /\ Posted("refresh")' = Posted("refresh")
  BY DEF Posted

LEMMA OtherEvents ==
  ASSUME TypeOK, NEW x \in {"key", "quit"}, PushEvent(x)
  PROVE  /\ events' \in Seq(Events)
         /\ Posted("alloc")' = Posted("alloc") /\ Posted("refresh")' = Posted("refresh")
<1>1. x \in Events /\ x # "alloc" /\ x # "refresh"
  BY DEF Events
<1>2. Posted("alloc") \in Nat /\ Posted("refresh") \in Nat
  BY PostedCounts
<1>3. /\ Posted("alloc")' = Posted("alloc") + 0 /\ Posted("refresh")' = Posted("refresh") + 0
      /\ events' \in Seq(Events)
  BY <1>1, PushCounts
<1> QED
  BY <1>2, <1>3

LEMMA UserKeeps ==
  ASSUME IInv, PressKey \/ CloseWindow
  PROVE  IInv'
<1> USE Numbers DEF IInv
<1>1. PICK x \in {"key", "quit"} : PushEvent(x)
  BY DEF PressKey, CloseWindow
<1>2. /\ events' \in Seq(Events)
      /\ Posted("alloc")' = Posted("alloc") /\ Posted("refresh")' = Posted("refresh")
  BY <1>1, OtherEvents
<1>3. /\ UNCHANGED <<quit, sources, packets, video, ring, main, timers>>
      /\ keys' \in 0 .. Keys
  BY DEF PressKey, CloseWindow, TypeOK, LoopTypes
<1>4. TypeOK'
  BY <1>2, <1>3 DEF TypeOK, SourceTypes, PacketTypes, RingTypes, LoopTypes, sources, packets, ring
<1>5. OneRefresh'
  BY <1>2, <1>3, ChainKept
<1>6. Overlays' /\ Room' /\ Pictures'
  BY <1>2, <1>3, RingLeftAlone DEF Room, ring
<1>7. Sleepers' /\ Reading' /\ PacketsBounded' /\ Starting'
  BY <1>3 DEF Sleepers, Reading, PacketsBounded, Starting, sources, packets, ring
<1> QED
  BY <1>4, <1>5, <1>6, <1>7

LEMMA TimerKeeps ==
  ASSUME IInv, TimerFires
  PROVE  IInv'
<1> USE Numbers DEF IInv
<1>1. /\ events' \in Seq(Events)
      /\ Posted("alloc")' = Posted("alloc") /\ Posted("refresh")' = Posted("refresh") + 1
  <2>1. Posted("alloc") \in Nat /\ Posted("refresh") \in Nat
    BY Counts
  <2>2. Posted("alloc")' = Posted("alloc") + 0 /\ Posted("refresh")' = Posted("refresh") + 1
        /\ events' \in Seq(Events)
    BY PushCounts DEF TimerFires, Events
  <2> QED
    BY <2>1, <2>2
<1>2. /\ UNCHANGED <<quit, sources, packets, video, ring, main, keys>>
      /\ timers \in Nat /\ timers > 0 /\ timers' = timers - 1
  <2>1. timers \in Nat
    BY DEF TypeOK, LoopTypes
  <2> QED
    BY <2>1 DEF TimerFires
<1>3. TypeOK'
  <2>1. timers' \in Nat
    BY <1>2
  <2> QED
    BY <1>1, <1>2, <2>1 DEF TypeOK, SourceTypes, PacketTypes, RingTypes, LoopTypes, sources, packets, ring
<1>4. OneRefresh'
  BY <1>1, <1>2, Counts DEF OneRefresh
<1>5. Overlays' /\ Room' /\ Pictures'
  BY <1>1, <1>2, RingLeftAlone DEF Room, ring
<1>6. Sleepers' /\ Reading' /\ PacketsBounded' /\ Starting'
  BY <1>2 DEF Sleepers, Reading, PacketsBounded, Starting, sources, packets, ring
<1> QED
  BY <1>3, <1>4, <1>5, <1>6

(* What main and video_thread see of decode_thread. *)
LEMMA ReaderKeepsRing ==
  ASSUME IInv, UNCHANGED <<quit, ring, main, timers, keys>>,
         events' = events \/ PushEvent("quit"),
         video' = video \/ (video \in {"off", "get asleep"} /\ video' \in {"off", "get"})
  PROVE  OneRefresh' /\ Overlays' /\ Room' /\ Pictures' /\ RingTypes' /\ LoopTypes'
         /\ video' \in VideoPlaces
<1> USE Numbers DEF IInv
<1>1. /\ events' \in Seq(Events)
      /\ Posted("alloc")' = Posted("alloc") /\ Posted("refresh")' = Posted("refresh")
  <2>1. CASE events' = events
    BY <2>1, SameCounts DEF TypeOK, LoopTypes
  <2>2. CASE PushEvent("quit")
    BY <2>2, OtherEvents
  <2> QED
    BY <2>1, <2>2
<1>2. OneRefresh'
  BY <1>1, ChainKept
<1>3. Overlays' /\ Room' /\ Pictures'
  BY <1>1, RingLeftAlone DEF Room, ring, Apart
<1>4. RingTypes' /\ LoopTypes' /\ video' \in VideoPlaces
  BY <1>1 DEF TypeOK, RingTypes, LoopTypes, ring, VideoPlaces
<1> QED
  BY <1>2, <1>3, <1>4

LEMMA OpeningKeeps ==
  ASSUME IInv, OpenFile \/ OpenAudio \/ OpenVideo
  PROVE  IInv'
<1> USE Numbers DEF IInv
<1>1. /\ UNCHANGED <<quit, seekReq, position, videoq, audioq, ring, main, timers, keys, events>>
      /\ video' = video \/ (video = "off" /\ video' \in {"off", "get"})
      /\ audio' = audio \/ audio' \in {"off", "get"}
      /\ reader' \in {"open audio", "returned", "open video", "fail", "loop"}
      /\ reader' \in {"open audio", "open video"} => video' = "off"
  BY DEF OpenFile, OpenAudio, OpenVideo, Starting, packets, loop
<1>2. OneRefresh' /\ Overlays' /\ Room' /\ Pictures' /\ RingTypes' /\ LoopTypes'
      /\ video' \in VideoPlaces
  BY <1>1, ReaderKeepsRing
<1>3. TypeOK'
  BY <1>1, <1>2 DEF TypeOK, SourceTypes, PacketTypes
<1>4. Sleepers' /\ Reading' /\ PacketsBounded' /\ Starting'
  BY <1>1 DEF Sleepers, Reading, PacketsBounded, Starting, ring
<1> QED
  BY <1>2, <1>3, <1>4

LEMMA LoopKeeps ==
  ASSUME IInv, Loop
  PROVE  IInv'
<1> USE Numbers DEF IInv
<1>1. /\ UNCHANGED <<quit, audio, video, ring, main, timers, keys, events>>
      /\ reader' \in {"wait", "check"}
      /\ seekReq' = seekReq \/ seekReq' = FALSE
      /\ position' = position \/ position' \in 0 .. Len(File)
      /\ UNCHANGED <<videoq, audioq>> \/ (videoq' = << >> /\ audioq' = << >>)
  BY DEF Loop, Seek, loop
<1>2. OneRefresh' /\ Overlays' /\ Room' /\ Pictures' /\ RingTypes' /\ LoopTypes'
      /\ video' \in VideoPlaces
  BY <1>1, ReaderKeepsRing
<1>3. SourceTypes'
  BY <1>1 DEF TypeOK, SourceTypes
<1>4. PacketTypes'
  <2>1. << >> \in Seq(1 .. Len(File))
    OBVIOUS
  <2> QED
    BY <1>1, <2>1 DEF TypeOK, PacketTypes
<1>5. Sleepers' /\ Reading' /\ Starting'
  BY <1>1 DEF Sleepers, Reading, Starting, ring
<1>6. PacketsBounded'
  <2>1. Len(<< >>) = 0
    OBVIOUS
  <2> QED
    BY <1>1, <2>1 DEF PacketsBounded
<1> QED
  BY <1>2, <1>3, <1>4, <1>5, <1>6 DEF TypeOK

LEMMA CheckKeeps ==
  ASSUME IInv, CheckSizes \/ ReadNothing \/ WaitForQuit \/ Fail
  PROVE  IInv'
<1> USE Numbers DEF IInv
<1>1. /\ UNCHANGED <<quit, seekReq, position, packets, video, ring, main, timers, keys>>
      /\ events' = events \/ PushEvent("quit")
      /\ reader' \in {"loop", "read", "wait", "fail", "returned"}
      /\ reader' = "read" => ~Overfull
  BY DEF CheckSizes, ReadNothing, WaitForQuit, Fail, loop
<1>2. OneRefresh' /\ Overlays' /\ Room' /\ Pictures' /\ RingTypes' /\ LoopTypes'
      /\ video' \in VideoPlaces
  BY <1>1, ReaderKeepsRing
<1>3. TypeOK'
  BY <1>1, <1>2 DEF TypeOK, SourceTypes, PacketTypes, packets
<1>4. Sleepers' /\ PacketsBounded' /\ Starting'
  BY <1>1 DEF Sleepers, PacketsBounded, Starting, packets, ring
<1>5. Reading'
  <2>1. Len(videoq) \in Nat /\ Len(audioq) \in Nat
    BY QueueLengths
  <2> QED
    BY <1>1, <2>1 DEF Reading, Overfull, packets
<1> QED
  BY <1>2, <1>3, <1>4, <1>5

LEMMA ReadFrameKeeps ==
  ASSUME IInv, ReadFrame
  PROVE  IInv'
<1> USE Numbers DEF IInv
<1>1. /\ UNCHANGED <<quit, seekReq, ring, main, timers, keys, events>>
      /\ reader = "read" /\ reader' = "loop"
      /\ position' = position + 1 /\ position < Len(File)
      /\ \/ PutVideo /\ UNCHANGED <<audioq, audio>>
         \/ PutAudio /\ UNCHANGED <<videoq, video>>
         \/ UNCHANGED <<videoq, video, audioq, audio>>
  BY DEF ReadFrame, loop
<1>2. video' = video \/ (video = "get asleep" /\ video' = "get")
  BY <1>1 DEF PutVideo
<1>3. OneRefresh' /\ Overlays' /\ Room' /\ Pictures' /\ RingTypes' /\ LoopTypes'
      /\ video' \in VideoPlaces
  BY <1>1, <1>2, ReaderKeepsRing
<1>4. SourceTypes' /\ position' \in 1 .. Len(File)
  <2>1. Len(File) \in Nat
    BY PlayerAssumption DEF PlayerAssumption
  <2> QED
    BY <1>1, <2>1 DEF TypeOK, SourceTypes
<1>5. PacketTypes' /\ PacketsBounded'
  <2>1. /\ videoq \in Seq(1 .. Len(File)) /\ audioq \in Seq(1 .. Len(File))
        /\ audio \in {"off", "get", "get asleep"}
        /\ Len(videoq) <= MaxVideo /\ Len(audioq) <= MaxAudio
        /\ Len(videoq) \in Nat /\ Len(audioq) \in Nat
    BY <1>1, QueueLengths DEF TypeOK, PacketTypes, Reading
  <2>a. /\ Len(videoq) <= MaxVideo /\ Len(audioq) <= MaxAudio
        /\ Len(videoq) \in Nat /\ Len(audioq) \in Nat
    BY <2>1
  <2>b. Len(videoq) + 1 <= MaxVideo + 1 /\ Len(videoq) <= MaxVideo + 1
    BY <2>a, Numbers
  <2>c. Len(audioq) + 1 <= MaxAudio + 1 /\ Len(audioq) <= MaxAudio + 1
    BY <2>a, Numbers
  <2>2. /\ videoq' = videoq \/ videoq' = Append(videoq, position')
        /\ audioq' = audioq \/ audioq' = Append(audioq, position')
        /\ audio' = audio \/ audio' = "get"
    BY <1>1 DEF PutVideo, PutAudio
  <2>3. videoq' \in Seq(1 .. Len(File)) /\ Len(videoq') <= MaxVideo + 1
    <3>1. PICK q \in Seq(1 .. Len(File)) :
            q = Append(videoq, position') /\ Len(q) = Len(videoq) + 1
      BY <1>4, <2>1, Lengths
    <3>2. videoq' = videoq \/ videoq' = q
      BY <2>2, <3>1
    <3>3. CASE videoq' = videoq
      <4>1. Len(videoq') <= MaxVideo + 1
        BY <2>b, <3>3
      <4>2. videoq' \in Seq(1 .. Len(File))
        BY <2>1, <3>3
      <4> QED
        BY <4>1, <4>2
    <3>4. CASE videoq' = q
      <4>1. Len(videoq') = Len(videoq) + 1
        BY <3>1, <3>4
      <4>2. videoq' \in Seq(1 .. Len(File))
        BY <3>1, <3>4
      <4> QED
        BY <2>b, <4>1, <4>2
    <3> QED
      BY <3>2, <3>3, <3>4
  <2>4. audioq' \in Seq(1 .. Len(File)) /\ Len(audioq') <= MaxAudio + 1
    <3>1. PICK q \in Seq(1 .. Len(File)) :
            q = Append(audioq, position') /\ Len(q) = Len(audioq) + 1
      BY <1>4, <2>1, Lengths
    <3>2. audioq' = audioq \/ audioq' = q
      BY <2>2, <3>1
    <3>3. CASE audioq' = audioq
      <4>1. Len(audioq') <= MaxAudio + 1
        BY <2>c, <3>3
      <4>2. audioq' \in Seq(1 .. Len(File))
        BY <2>1, <3>3
      <4> QED
        BY <4>1, <4>2
    <3>4. CASE audioq' = q
      <4>1. Len(audioq') = Len(audioq) + 1
        BY <3>1, <3>4
      <4>2. audioq' \in Seq(1 .. Len(File))
        BY <3>1, <3>4
      <4> QED
        BY <2>c, <4>1, <4>2
    <3> QED
      BY <3>2, <3>3, <3>4
  <2> QED
    BY <2>1, <2>2, <2>3, <2>4 DEF PacketTypes, PacketsBounded
<1>6. Sleepers'
  <2>1. PutVideo => video' # "get asleep"
    BY DEF PutVideo
  <2>2. PutAudio => audio' # "get asleep"
    BY DEF PutAudio
  <2> QED
    BY <1>1, <1>2, <2>1, <2>2 DEF Sleepers, ring
<1>7. Reading' /\ Starting'
  BY <1>1, <1>2 DEF Reading, Starting
<1> QED
  BY <1>3, <1>4, <1>5, <1>6, <1>7 DEF TypeOK

LEMMA AudioKeeps ==
  ASSUME IInv, GetAudio
  PROVE  IInv'
<1> USE Numbers DEF IInv
<1>1. /\ UNCHANGED <<quit, sources, videoq, video, ring, main, events, timers, keys>>
      /\ \/ audioq # << >> /\ audioq' = Tail(audioq) /\ audio = "get" /\ audio' = audio
         \/ audioq = << >> /\ audio' = "get asleep" /\ audioq' = audioq
  BY DEF GetAudio, loop
<1>2. OneRefresh' /\ Overlays' /\ Room' /\ Pictures' /\ RingTypes' /\ LoopTypes'
      /\ video' \in VideoPlaces
  BY <1>1, ReaderKeepsRing
<1>3. audioq' \in Seq(1 .. Len(File)) /\ Len(audioq') <= Len(audioq)
      /\ Len(audioq) \in Nat /\ Len(audioq') \in Nat
  <2>1. audioq \in Seq(1 .. Len(File)) /\ Len(audioq) \in Nat
    BY QueueLengths DEF TypeOK, PacketTypes
  <2>2. audioq # << >> => /\ Tail(audioq) \in Seq(1 .. Len(File))
                          /\ Len(Tail(audioq)) = Len(audioq) - 1
                          /\ Len(Tail(audioq)) \in Nat
    BY <2>1, Lengths
  <2>3. CASE audioq' = audioq
    BY <2>1, <2>3
  <2>4. CASE audioq # << >> /\ audioq' = Tail(audioq)
    <3>1. PICK q \in Seq(1 .. Len(File)) : q = Tail(audioq) /\ Len(q) = Len(audioq) - 1 /\ Len(q) \in Nat
      BY <2>2, <2>4
    <3> QED
      BY <2>1, <2>4, <3>1
  <2> QED
    BY <1>1, <2>3, <2>4
<1>4. TypeOK'
  BY <1>1, <1>2, <1>3 DEF TypeOK, SourceTypes, PacketTypes, sources
<1>5. Sleepers' /\ Starting'
  BY <1>1 DEF Sleepers, Starting, sources, ring
<1>6. Reading' /\ PacketsBounded'
  <2>1. reader' = reader /\ videoq' = videoq
    BY <1>1 DEF sources
  <2> QED
    BY <1>3, <2>1 DEF Reading, PacketsBounded
<1> QED
  BY <1>2, <1>4, <1>5, <1>6

-----------------------------------------------------------------------------
(* video_thread *)

(* A step that only concerns the ring and main. *)
LEMMA ElsewhereKept ==
  ASSUME IInv, UNCHANGED <<quit, sources, packets>>,
         video' \notin {"get asleep", "room asleep"} \/ (video' = video /\ size' = size),
         reader \notin {"start", "open audio", "open video"} \/ video' = video
  PROVE  SourceTypes' /\ PacketTypes' /\ Sleepers' /\ Reading' /\ PacketsBounded' /\ Starting'
<1>1. UNCHANGED <<quit, seekReq, position, reader, videoq, audioq, audio>>
  BY DEF sources, packets
<1>2. SourceTypes' /\ PacketTypes'
  BY <1>1 DEF IInv, TypeOK, SourceTypes, PacketTypes
<1>3. Sleepers'
  <2>1. video' = "get asleep" => videoq' = << >>
    BY <1>1 DEF IInv, Sleepers
  <2>2. audio' = "get asleep" => audioq' = << >>
    BY <1>1 DEF IInv, Sleepers
  <2>3. video' = "room asleep" => video = "room asleep" /\ size' = size
    OBVIOUS
  <2> QED
    BY <2>1, <2>2, <2>3 DEF IInv, Sleepers
<1>4. Reading' /\ PacketsBounded' /\ Starting'
  BY <1>1 DEF IInv, Reading, PacketsBounded, Starting
<1> QED
  BY <1>2, <1>3, <1>4

LEMMA GetVideoKeeps ==
  ASSUME IInv, GetVideo
  PROVE  IInv'
<1>1. /\ UNCHANGED <<quit, sources, audioq, audio, ring, main, loop>>
      /\ video = "get" /\ video' \in {"ended", "decode", "get asleep"}
      /\ \/ videoq' = videoq /\ (video' = "get asleep" => videoq = << >>)
         \/ videoq # << >> /\ videoq' = Tail(videoq) /\ video' # "get asleep"
  BY DEF GetVideo
<1>2. UNCHANGED <<pictq, size, rindex, windex, kept, shown, codecSize, events, timers, keys,
                  seekReq, position, reader>>
  BY <1>1 DEF ring, loop, sources
<1>3. OneRefresh' /\ Overlays' /\ Room' /\ Pictures'
  BY <1>1, <1>2, SameCounts, ChainKept, RingLeftAlone DEF Apart
<1>4. videoq' \in Seq(1 .. Len(File)) /\ Len(videoq') <= Len(videoq)
      /\ Len(videoq) \in Nat /\ Len(videoq') \in Nat
  <2>1. videoq \in Seq(1 .. Len(File)) /\ Len(videoq) \in Nat
    BY QueueLengths DEF IInv, TypeOK, PacketTypes
  <2>2. videoq # << >> => /\ Tail(videoq) \in Seq(1 .. Len(File))
                          /\ Len(Tail(videoq)) = Len(videoq) - 1
                          /\ Len(Tail(videoq)) \in Nat
    BY <2>1, Lengths
  <2>3. CASE videoq' = videoq
    BY <2>1, <2>3
  <2>4. CASE videoq # << >> /\ videoq' = Tail(videoq)
    <3>1. PICK q \in Seq(1 .. Len(File)) :
            q = Tail(videoq) /\ Len(q) = Len(videoq) - 1 /\ Len(q) \in Nat
      BY <2>2, <2>4
    <3> QED
      BY <2>1, <2>4, <3>1
  <2> QED
    BY <1>1, <2>3, <2>4
<1>5. SourceTypes' /\ PacketTypes' /\ RingTypes' /\ LoopTypes' /\ video' \in VideoPlaces
  BY <1>1, <1>2, <1>4 DEF IInv, TypeOK, SourceTypes, PacketTypes, RingTypes, LoopTypes, VideoPlaces
<1>6. Sleepers'
  BY <1>1, <1>2 DEF IInv, Sleepers
<1>7. Reading' /\ PacketsBounded'
  <2>1. reader' = reader /\ audioq' = audioq
    BY <1>1, <1>2
  <2>2. Len(videoq') <= Len(videoq) /\ Len(videoq) \in Nat /\ Len(videoq') \in Nat
    BY <1>4
  <2> QED
    BY <2>1, <2>2, Numbers DEF IInv, Reading, PacketsBounded
<1>8. Starting'
  BY <1>1, <1>2 DEF IInv, Starting
<1> QED
  BY <1>3, <1>5, <1>6, <1>7, <1>8 DEF IInv, TypeOK

LEMMA DecodeKeeps ==
  ASSUME IInv, Decode \/ WaitForRoom
  PROVE  IInv'
<1>1. /\ UNCHANGED <<quit, sources, packets, pictq, size, rindex, windex, kept, shown, main, loop>>
      /\ video \in Apart /\ video' \in Apart /\ video' # "get asleep" /\ video # "off"
      /\ codecSize' = codecSize \/ (video = "decode" /\ codecSize' \in Sizes)
      /\ video' = "slot" => quit \/ size < Slots
      /\ video' = "room asleep" => size >= Slots
  <2>1. CASE Decode
    BY <2>1 DEF Decode, Apart
  <2>2. CASE WaitForRoom
    <3>1. size \in Nat /\ Slots \in Nat
      BY Numbers DEF IInv, TypeOK, RingTypes
    <3>a. ~(size >= Slots) => size < Slots
      BY <3>1
    <3>b. \/ size >= Slots /\ video' = "room asleep"
          \/ (quit \/ ~(size >= Slots)) /\ video' = "slot"
      BY <2>2, ZenonT(20) DEF WaitForRoom
    <3>2. /\ video = "room" /\ UNCHANGED <<quit, sources, packets, ring, main, loop>>
          /\ \/ video' = "room asleep" /\ size >= Slots
             \/ video' = "slot" /\ (quit \/ size < Slots)
      BY <2>2, <3>a, <3>b, ZenonT(20) DEF WaitForRoom
    <3> QED
      BY <3>2 DEF Apart, ring
  <2> QED
    BY <2>1, <2>2
<1>2. UNCHANGED <<events, timers, keys>>
  BY <1>1 DEF loop
<1>3. OneRefresh' /\ Overlays' /\ Room' /\ Pictures'
  BY <1>1, <1>2, SameCounts, ChainKept, RingLeftAlone
<1>4. SourceTypes' /\ PacketTypes' /\ Reading' /\ PacketsBounded'
  BY <1>1 DEF IInv, TypeOK, SourceTypes, PacketTypes, Reading, PacketsBounded, sources, packets
<1>5. RingTypes' /\ LoopTypes' /\ video' \in VideoPlaces
  BY <1>1, <1>2 DEF IInv, TypeOK, RingTypes, LoopTypes, VideoPlaces, Apart
<1>6. Sleepers' /\ Starting'
  BY <1>1 DEF IInv, Sleepers, Starting, sources, packets
<1> QED
  BY <1>3, <1>4, <1>5, <1>6 DEF IInv, TypeOK

(* The ring is not full, so the next slot is none of those that wait to be shown. *)
LEMMA NextSlotFree ==
  ASSUME IInv, size < Slots, video # "count"
  PROVE  /\ InRing \in 0 .. Slots - 1 /\ InRing \in Nat /\ windex \in Slot /\ rindex \in Slot
         /\ \A k \in 0 .. InRing - 1 : Place(k) \in Slot /\ Place(k) # windex
         /\ (main = "show" => rindex # windex)
<1>1. /\ size \in 0 .. Slots /\ rindex \in 0 .. Slots - 1 /\ windex \in 0 .. Slots - 1
      /\ Slots \in Nat /\ TypeOK /\ windex = Place(InRing)
      /\ (main \in {"show", "take"} => size > 0)
  BY Numbers DEF IInv, TypeOK, RingTypes, Pictures, Room
<1>2. InRing = size - (IF main = "take" THEN 1 ELSE 0)
  BY DEF InRing
<1>3. InRing \in 0 .. Slots - 1
  BY <1>1, <1>2
<1>4. Place(InRing) = IF rindex + InRing < Slots THEN rindex + InRing ELSE rindex + InRing - Slots
  BY <1>1, <1>3, Places
<1>5. ASSUME NEW k \in 0 .. InRing - 1
      PROVE  Place(k) \in Slot /\ Place(k) # windex
  <2>1. k \in 0 .. Slots
    BY <1>1, <1>3
  <2>2. Place(k) \in Slot /\ Place(k) = IF rindex + k < Slots THEN rindex + k ELSE rindex + k - Slots
    BY <1>1, <2>1, Places
  <2> QED
    BY <1>1, <1>3, <1>4, <2>2
<1>6. main = "show" => rindex # windex
  <2>1. main = "show" => 0 \in 0 .. InRing - 1
    BY <1>1, <1>2
  <2> QED
    BY <1>1, <1>5, <2>1, Places
<1> QED
  BY <1>1, <1>3, <1>5, <1>6 DEF Slot

(* A step that may change the slot written to, but none of those to be shown. *)
LEMMA OthersKept ==
  ASSUME IInv, UNCHANGED <<rindex, windex, kept, shown>>, InRing' = InRing,
         size < Slots, video # "count",
         \A i \in Slot : i # windex => pictq'[i] = pictq[i]
  PROVE  Pictures'
<1>1. InRing \in Nat /\ \A k \in 0 .. InRing - 1 : Place(k) \in Slot /\ Place(k) # windex
  BY NextSlotFree
<1>2. \A k : Place(k)' = Place(k)
  BY DEF Place
<1>3. \A k \in 0 .. InRing - 1 : pictq'[Place(k)] = pictq[Place(k)]
  BY <1>1
<1> QED
  BY <1>2, <1>3 DEF IInv, Pictures

LEMMA AskForOverlayKeeps ==
  ASSUME IInv, AskForOverlay
  PROVE  IInv'
<1>1. /\ UNCHANGED <<quit, sources, packets, codecSize, size, rindex, windex, kept, shown,
                     main, timers, keys>>
      /\ video = "slot" /\ Asked = 0 /\ Posted("alloc") = 0 /\ main \notin {"make", "tell"}
      /\ windex \in Slot /\ TypeOK /\ (quit \/ size < Slots)
  BY Counts DEF AskForOverlay, Apart, IInv, Room, TypeOK, RingTypes, Slot
<1>2. video' \in {"ended", "fill", "alloc"}
  BY DEF AskForOverlay
<1>3. SourceTypes' /\ PacketTypes' /\ Sleepers' /\ Reading' /\ PacketsBounded' /\ Starting'
      /\ video' \in VideoPlaces
  BY <1>1, <1>2, ElsewhereKept DEF IInv, Starting, VideoPlaces
<1>4. CASE video' \in {"ended", "fill"}
  <2>1. UNCHANGED <<pictq, events>>
    BY <1>4 DEF AskForOverlay
  <2>2. RingTypes' /\ LoopTypes'
    BY <1>1, <2>1 DEF IInv, TypeOK, RingTypes, LoopTypes
  <2>3. OneRefresh'
    BY <1>1, <2>1, SameCounts, ChainKept
  <2>4. CASE video' = "ended"
    <3>1. Overlays' /\ Room' /\ Pictures'
      BY <1>1, <2>1, <2>4, SameCounts, RingLeftAlone DEF Apart
    <3> QED
      BY <1>3, <2>2, <2>3, <3>1 DEF IInv, TypeOK
  <2>5. CASE video' = "fill"
    <3>1. ~quit /\ ~Misfit(pictq[windex])
      BY <2>5 DEF AskForOverlay
    <3>2. Fits /\ pictq[windex].bmp = "made"
      BY <3>1, <1>1 DEF Misfit, Fits, IInv, Overlays, TypeOK, RingTypes, Slot
    <3>3. Asked' = Asked
      BY <1>1, <2>1, SameCounts DEF Asked
    <3>4. Overlays'
      BY <1>1, <2>1, <2>5, <3>2, <3>3 DEF Overlays, Fits, Waiting, IInv
    <3>5. Room' /\ InRing' = InRing
      BY <1>1, <2>5, <3>1 DEF Room, IInv, Waiting, InRing
    <3>6. Pictures'
      BY <1>1, <2>1, <3>5 DEF Pictures, Place, IInv
    <3> QED
      BY <1>3, <2>2, <2>3, <3>4, <3>5, <3>6 DEF IInv, TypeOK
  <2> QED
    BY <1>4, <2>4, <2>5
<1>5. CASE video' = "alloc"
  <2>1. ~quit /\ pictq' = [pictq EXCEPT ![windex].allocated = FALSE] /\ PushEvent("alloc")
    BY <1>5 DEF AskForOverlay
  <2>2. /\ events' \in Seq(Events) /\ Posted("alloc")' = 1
        /\ Posted("refresh")' = Posted("refresh")
    <3>1. "alloc" \in Events /\ Posted("refresh") \in Nat
      BY Counts DEF Events
    <3>2. /\ events' \in Seq(Events) /\ Posted("alloc")' = Posted("alloc") + 1
          /\ Posted("refresh")' = Posted("refresh") + 0
      BY <1>1, <2>1, <3>1, PushCounts
    <3> QED
      BY <1>1, <3>1, <3>2
  <2>3. /\ \A i \in Slot : pictq'[i].bmp = pictq[i].bmp
        /\ \A i \in Slot : i # windex => pictq'[i] = pictq[i]
        /\ pictq'[windex].allocated = FALSE
        /\ RingTypes'
    BY <1>1, <2>1 DEF TypeOK, RingTypes, Slot
  <2>4. LoopTypes' /\ OneRefresh'
    BY <1>1, <2>2, ChainKept DEF TypeOK, LoopTypes
  <2>5. Asked' = 1
    BY <1>1, <2>2 DEF Asked
  <2>6. size < Slots /\ InRing' = InRing
    BY <1>1, <1>5, <2>1 DEF InRing
  <2>7. Overlays'
    <3>1. \A i \in Slot : pictq'[i].bmp = "freed" => main' = "make" /\ i = windex'
      BY <1>1, <2>3 DEF IInv, Overlays
    <3>2. ~pictq'[windex'].allocated
      BY <1>1, <2>3
    <3> QED
      BY <1>1, <1>5, <2>5, <2>6, <3>1, <3>2 DEF Overlays, Waiting
  <2>8. Room' /\ Pictures'
    BY <1>1, <1>5, <2>3, <2>6, OthersKept DEF Room, IInv, Waiting
  <2> QED
    BY <1>3, <2>3, <2>4, <2>7, <2>8 DEF IInv, TypeOK
<1> QED
  BY <1>2, <1>4, <1>5

LEMMA WaitForOverlayKeeps ==
  ASSUME IInv, WaitForOverlay
  PROVE  IInv'
<1>1. /\ UNCHANGED <<quit, sources, packets, ring, main, loop>>
      /\ video = "alloc" /\ video' \in {"alloced", "alloc asleep"}
  BY DEF WaitForOverlay
<1>2. UNCHANGED <<pictq, size, rindex, windex, kept, shown, codecSize, events, timers, keys>>
  BY <1>1 DEF ring, loop
<1>3. SourceTypes' /\ PacketTypes' /\ Sleepers' /\ Reading' /\ PacketsBounded' /\ Starting'
      /\ video' \in VideoPlaces
  BY <1>1, ElsewhereKept DEF IInv, Starting, VideoPlaces
<1>4. RingTypes' /\ LoopTypes' /\ OneRefresh'
  BY <1>1, <1>2, SameCounts, ChainKept DEF IInv, TypeOK, RingTypes, LoopTypes
<1>5. Asked' = Asked /\ InRing' = InRing /\ Asked \in {0, 1}
  BY <1>1, <1>2, SameCounts, Counts DEF Asked, InRing
<1>6. Overlays'
  <2>1. CASE video' = "alloced"
    <3>1. pictq[windex].allocated \/ quit
      BY <2>1, <1>1 DEF WaitForOverlay
    <3>2. quit \/ (Asked = 0 /\ Fits)
      BY <3>1, <1>1, <1>5 DEF IInv, Overlays, Waiting
    <3> QED
      BY <1>1, <1>2, <1>5, <2>1, <3>2 DEF IInv, Overlays, Fits, Waiting
  <2>2. CASE video' = "alloc asleep"
    <3>1. ~pictq[windex].allocated
      BY <2>2, <1>1 DEF WaitForOverlay
    <3>2. Asked = 1
      BY <3>1, <1>1, <1>5 DEF IInv, Overlays, Waiting
    <3> QED
      BY <1>1, <1>2, <1>5, <2>2, <3>2 DEF IInv, Overlays, Fits, Waiting
  <2> QED
    BY <1>1, <2>1, <2>2
<1>7. Room'
  BY <1>1, <1>2 DEF IInv, Room, Waiting
<1>8. Pictures'
  BY <1>2, <1>5 DEF IInv, Pictures, Place
<1> QED
  BY <1>3, <1>4, <1>6, <1>7, <1>8 DEF IInv, TypeOK

LEMMA HaveOverlayKeeps ==
  ASSUME IInv, HaveOverlay
  PROVE  IInv'
<1>1. /\ UNCHANGED <<quit, sources, packets, ring, main, loop>>
      /\ video = "alloced" /\ video' \in {"ended", "get", "fill"}
      /\ video' = "ended" => quit
      /\ video' \in {"get", "fill"} => ~quit
      /\ video' = "fill" => pictq[windex].bmp # "none"
  BY DEF HaveOverlay
<1>2. UNCHANGED <<pictq, size, rindex, windex, kept, shown, codecSize, events, timers, keys>>
  BY <1>1 DEF ring, loop
<1>3. SourceTypes' /\ PacketTypes' /\ Sleepers' /\ Reading' /\ PacketsBounded' /\ Starting'
      /\ video' \in VideoPlaces
  BY <1>1, ElsewhereKept DEF IInv, Starting, VideoPlaces
<1>4. RingTypes' /\ LoopTypes' /\ OneRefresh'
  BY <1>1, <1>2, SameCounts, ChainKept DEF IInv, TypeOK, RingTypes, LoopTypes
<1>5. Asked' = Asked /\ InRing' = InRing /\ Asked \in {0, 1}
  BY <1>1, <1>2, SameCounts, Counts DEF Asked, InRing
<1>6. Overlays'
  <2>1. CASE quit
    BY <1>1, <1>2, <1>5, <2>1 DEF IInv, Overlays, Fits, Waiting
  <2>2. CASE ~quit
    <3>1. Asked = 0 /\ Fits
      BY <1>1, <2>2 DEF IInv, Overlays
    <3>2. video' = "fill" => pictq[windex].bmp = "made"
      BY <1>1, <3>1 DEF Fits
    <3> QED
      BY <1>1, <1>2, <1>5, <2>2, <3>1, <3>2 DEF IInv, Overlays, Fits, Waiting
  <2> QED
    BY <2>1, <2>2
<1>7. Room'
  BY <1>1, <1>2 DEF IInv, Room, Waiting
<1>8. Pictures'
  BY <1>2, <1>5 DEF IInv, Pictures, Place
<1> QED
  BY <1>3, <1>4, <1>6, <1>7, <1>8 DEF IInv, TypeOK

LEMMA FillKeeps ==
  ASSUME IInv, Fill
  PROVE  IInv'
<1>1. /\ UNCHANGED <<quit, sources, packets, codecSize, size, rindex, shown, main,
                     events, timers, keys>>
      /\ video = "fill" /\ video' = "count" /\ Asked = 0 /\ pictq[windex].bmp = "made"
      /\ windex \in Slot /\ rindex \in Slot /\ TypeOK /\ size < Slots
      /\ kept \in Nat /\ kept' = kept + 1 /\ windex' = Following(windex)
      /\ pictq' = [pictq EXCEPT ![windex].picture = kept']
  BY DEF Fill, loop, IInv, Overlays, Room, TypeOK, RingTypes, Slot, Waiting
<1>2. SourceTypes' /\ PacketTypes' /\ Sleepers' /\ Reading' /\ PacketsBounded' /\ Starting'
      /\ video' \in VideoPlaces
  BY <1>1, ElsewhereKept DEF IInv, Starting, VideoPlaces
<1>3. LoopTypes' /\ OneRefresh'
  BY <1>1, SameCounts, ChainKept DEF TypeOK, LoopTypes
<1>4. /\ \A i \in Slot : pictq'[i].bmp = pictq[i].bmp
      /\ \A i \in Slot : i # windex => pictq'[i] = pictq[i]
      /\ pictq'[windex].picture = kept + 1
      /\ pictq' \in [Slot -> [bmp : {"none", "freed", "made"}, size : Sizes \cup {0},
                              allocated : BOOLEAN, picture : Nat]]
  BY <1>1 DEF TypeOK, RingTypes, Slot
<1>5. /\ InRing \in 0 .. Slots - 1 /\ InRing \in Nat
      /\ \A k \in 0 .. InRing - 1 : Place(k) \in Slot /\ Place(k) # windex
      /\ windex = Place(InRing) /\ kept = shown + InRing
  BY <1>1, NextSlotFree DEF IInv, Pictures
<1>6. InRing' = InRing + 1
  <2>1. size \in Nat
    BY <1>1, Numbers DEF TypeOK, RingTypes
  <2> QED
    BY <1>1, <2>1 DEF InRing
<1>7. windex' \in Slot /\ windex' = Place(InRing + 1)
  <2>1. InRing \in 0 .. Slots /\ InRing + 1 \in 0 .. Slots
    BY <1>5, Numbers
  <2>2. /\ windex = IF rindex + InRing < Slots THEN rindex + InRing ELSE rindex + InRing - Slots
        /\ Place(InRing + 1) \in Slot
        /\ Place(InRing + 1) = IF rindex + (InRing + 1) < Slots THEN rindex + (InRing + 1)
                                                             ELSE rindex + (InRing + 1) - Slots
    BY <1>1, <1>5, <2>1, Places
  <2>3. Following(windex) = IF windex + 1 < Slots THEN windex + 1 ELSE windex + 1 - Slots
    <3>1. PICK a \in 0 .. 2 * Slots - 1 : a = windex + 1
      BY <1>1, Numbers DEF Slot
    <3>2. a % Slots = IF a < Slots THEN a ELSE a - Slots
      BY Modulo
    <3> QED
      BY <1>1, <3>1, <3>2, Numbers DEF Following, Slot
  <2>4. rindex \in 0 .. Slots - 1 /\ Slots \in Nat
    BY <1>1, Numbers DEF Slot
  <2>5. Following(windex) = Place(InRing + 1)
    BY <1>5, <2>2, <2>3, <2>4
  <2> QED
    BY <1>1, <2>2, <2>5
<1>8. RingTypes'
  BY <1>1, <1>4, <1>7 DEF TypeOK, RingTypes, Slot
<1>9. Asked' = 0
  BY <1>1, SameCounts DEF Asked
<1>10. Overlays'
  <2>1. main # "make" /\ main # "tell"
    BY <1>1, Counts
  <2> QED
    BY <1>1, <1>4, <1>9, <2>1 DEF IInv, Overlays, Waiting
<1>11. Room'
  BY <1>1 DEF IInv, Room, Waiting
<1>12. Pictures'
  <2>1. \A k : Place(k)' = Place(k)
    BY <1>1 DEF Place
  <2>2. kept' = shown' + InRing'
    <3>1. shown \in Nat
      BY <1>1 DEF TypeOK, RingTypes
    <3> QED
      BY <1>1, <1>5, <1>6, <3>1
  <2>3. ASSUME NEW k \in 0 .. InRing
        PROVE  pictq'[Place(k)].picture = shown + k + 1 /\ pictq'[Place(k)].bmp = "made"
    <3>1. CASE k = InRing
      <4>1. pictq'[windex].picture = kept + 1 /\ pictq'[windex].bmp = "made"
        BY <1>1, <1>4
      <4> QED
        BY <3>1, <4>1, <1>5
    <3>2. CASE k # InRing
      <4>1. k \in 0 .. InRing - 1
        BY <3>2, <1>5
      <4> QED
        BY <4>1, <1>4, <1>5 DEF IInv, Pictures
    <3> QED
      BY <3>1, <3>2
  <2>4. InRing' - 1 = InRing
    BY <1>5, <1>6
  <2>5. windex' = Place(InRing)'
    BY <1>1, <1>6, <1>7 DEF Place
  <2>6. \A k \in 0 .. InRing' - 1 :
          pictq'[Place(k)'].picture = shown' + k + 1 /\ pictq'[Place(k)'].bmp = "made"
    BY <1>1, <2>1, <2>3, <2>4
  <2> QED
    BY <2>2, <2>5, <2>6 DEF Pictures
<1> QED
  BY <1>2, <1>3, <1>8, <1>10, <1>11, <1>12 DEF IInv, TypeOK

LEMMA CountPictureKeeps ==
  ASSUME IInv, CountPicture
  PROVE  IInv'
<1>1. /\ UNCHANGED <<quit, sources, packets, codecSize, pictq, rindex, windex, kept, shown, main,
                     events, timers, keys>>
      /\ video = "count" /\ video' = "get" /\ Asked = 0 /\ TypeOK
      /\ size \in Nat /\ size < Slots /\ size' = size + 1
  <2>1. Asked = 0 /\ video = "count"
    BY Counts DEF CountPicture
  <2>2. TypeOK /\ size < Slots
    BY <2>1 DEF IInv, Room
  <2>3. size \in Nat
    BY <2>2, Numbers DEF TypeOK, RingTypes
  <2> QED
    BY <2>1, <2>2, <2>3 DEF CountPicture, loop
<1>2. SourceTypes' /\ PacketTypes' /\ Sleepers' /\ Reading' /\ PacketsBounded' /\ Starting'
      /\ video' \in VideoPlaces
  BY <1>1, ElsewhereKept DEF IInv, Starting, VideoPlaces
<1>3. LoopTypes' /\ OneRefresh'
  BY <1>1, SameCounts, ChainKept DEF TypeOK, LoopTypes
<1>4. RingTypes'
  <2>1. size' \in 0 .. Slots
    BY <1>1, Numbers
  <2> QED
    BY <1>1, <2>1 DEF TypeOK, RingTypes
<1>5. Asked' = 0 /\ InRing' = InRing
  BY <1>1, SameCounts DEF Asked, InRing
<1>6. Overlays'
  <2>1. main # "make" /\ main # "tell"
    BY <1>1, Counts
  <2> QED
    BY <1>1, <1>5, <2>1 DEF IInv, Overlays, Waiting
<1>7. Room'
  BY <1>1 DEF IInv, Room, Waiting
<1>8. Pictures'
  BY <1>1, <1>5 DEF IInv, Pictures, Place
<1> QED
  BY <1>2, <1>3, <1>4, <1>6, <1>7, <1>8 DEF IInv, TypeOK

-----------------------------------------------------------------------------
(* main *)

LEMMA TakeEventKeeps ==
  ASSUME IInv, TakeEvent
  PROVE  IInv'
<1>1. /\ UNCHANGED <<position, reader, packets, video, codecSize, size, rindex, windex, kept, shown,
                     timers, keys>>
      /\ main = "wait" /\ events # << >> /\ events' = Tail(events) /\ TypeOK
      /\ windex \in Slot
  BY DEF TakeEvent, IInv, TypeOK, RingTypes, Slot
<1>2. /\ Head(events) \in Events /\ events' \in Seq(Events)
      /\ Posted("alloc")' = Posted("alloc") - IF Head(events) = "alloc" THEN 1 ELSE 0
      /\ Posted("refresh")' = Posted("refresh") - IF Head(events) = "refresh" THEN 1 ELSE 0
      /\ Posted("alloc") \in Nat /\ Posted("refresh") \in Nat /\ Posted("alloc")' \in Nat
  BY <1>1, TakeCounts, PostedCounts
<1>3. InRing' = InRing \/ main' = "take"
  BY <1>1 DEF InRing
<1>4. PacketTypes' /\ video' \in VideoPlaces /\ Sleepers' /\ Reading' /\ PacketsBounded' /\ Starting'
  BY <1>1 DEF IInv, TypeOK, PacketTypes, Sleepers, Reading, PacketsBounded, Starting, packets
<1>5. CASE Head(events) = "alloc"
  <2>1. /\ main' = "make" /\ UNCHANGED <<quit, seekReq>>
        /\ pictq' = [pictq EXCEPT ![windex].bmp = IF @ = "none" THEN "none" ELSE "freed"]
    BY <1>5 DEF TakeEvent
  <2>2. Posted("alloc")' = Posted("alloc") - 1 /\ Posted("refresh")' = Posted("refresh")
    BY <1>2, <1>5
  <2>3. Asked = Posted("alloc") /\ Asked' = Asked /\ Posted("alloc") = 1 /\ Asked = 1
    <3>1. Asked = Posted("alloc") /\ Asked \in {0, 1}
      BY <1>1, Counts
    <3>2. Asked' = Posted("alloc")' + 1
      BY <2>1 DEF Asked
    <3>3. Posted("alloc")' \in Nat
      BY <1>2
    <3> QED
      BY <1>2, <2>2, <3>1, <3>2, <3>3
  <2>4. /\ video \in Waiting \/ (quit /\ video \in {"alloced", "ended"})
        /\ size < Slots /\ ~pictq[windex].allocated /\ video # "count"
    BY <2>3 DEF IInv, Overlays, Waiting
  <2>5. /\ \A i \in Slot : i # windex => pictq'[i] = pictq[i]
        /\ pictq'[windex].allocated = pictq[windex].allocated
        /\ pictq'[windex].bmp \in {"none", "freed"}
        /\ RingTypes'
    BY <1>1, <2>1 DEF TypeOK, RingTypes, Slot
  <2>6. SourceTypes' /\ LoopTypes' /\ OneRefresh'
    BY <1>1, <1>2, <2>1, <2>2, ChainKept DEF TypeOK, SourceTypes, LoopTypes
  <2>7. Overlays'
    <3>1. \A i \in Slot : pictq'[i].bmp = "freed" => main' = "make" /\ i = windex'
      BY <1>1, <2>1, <2>5 DEF IInv, Overlays
    <3>2. ~pictq'[windex'].allocated
      BY <1>1, <2>4, <2>5
    <3>a. Asked' = 1
      BY <2>3
    <3>b. quit' = quit
      BY <2>1
    <3>3. /\ video' = video /\ size' = size /\ main' = "make"
      BY <1>1, <2>1
    <3>4. CASE video \in Waiting
      <4>1. Asked' \in {0, 1}
        BY <2>4, <3>a, <3>1, <3>2, <3>3, <3>4 DEF Waiting
      <4>a. video' \in Waiting /\ size' < Slots
        BY <2>4, <3>3, <3>4
      <4>2. Asked' = 1 => /\ video' \in Waiting \/ (quit' /\ video' \in {"alloced", "ended"})
                       /\ size' < Slots /\ ~pictq'[windex'].allocated
        BY <3>2, <4>a, Zenon
      <4>b. Asked' # 0
        BY <3>a
      <4>3. video' \in Waiting /\ Asked' = 0 => video' = "alloc" /\ pictq'[windex'].allocated /\ Fits'
        BY <4>b, Zenon
      <4>4. video' = "alloced" /\ ~quit' => Asked' = 0 /\ Fits'
        BY <2>4, <3>a, <3>1, <3>2, <3>3, <3>4 DEF Waiting
      <4>5. video' = "fill" => Asked' = 0 /\ Fits' /\ pictq'[windex'].bmp = "made"
        BY <2>4, <3>a, <3>1, <3>2, <3>3, <3>4 DEF Waiting
      <4>6. main' = "tell" => Fits'
        BY <2>4, <3>a, <3>1, <3>2, <3>3, <3>4 DEF Waiting
      <4>7. \A i \in Slot : pictq'[i].bmp = "freed" => main' = "make" /\ i = windex'
        BY <2>4, <3>a, <3>1, <3>2, <3>3, <3>4 DEF Waiting
      <4> QED
        BY <4>1, <4>2, <4>3, <4>4, <4>5, <4>6, <4>7 DEF Overlays
    <3>5. CASE quit /\ video \in {"alloced", "ended"}
      BY <2>4, <3>a, <3>b, <3>1, <3>2, <3>3, <3>5 DEF Overlays, Waiting
    <3> QED
      BY <2>4, <3>4, <3>5
  <2>8. InRing' = InRing
    BY <1>1, <2>1 DEF InRing
  <2>9. Room' /\ Pictures'
    BY <1>1, <2>1, <2>4, <2>5, <2>8, OthersKept DEF IInv, Room, Waiting
  <2> QED
    BY <1>4, <2>5, <2>6, <2>7, <2>9 DEF IInv, TypeOK
<1>6. CASE Head(events) # "alloc"
  <2>1. /\ pictq' = pictq /\ main' \in {"refresh", "wait", "quit"}
        /\ main' = "refresh" <=> Head(events) = "refresh"
        /\ quit' \in BOOLEAN /\ (quit => quit') /\ seekReq' \in BOOLEAN
    <3>1. CASE Head(events) = "refresh"
      BY <3>1, <1>1 DEF TakeEvent, TypeOK, SourceTypes
    <3>2. CASE Head(events) = "key"
      BY <3>2, <1>1 DEF TakeEvent, TypeOK, SourceTypes
    <3>3. CASE Head(events) = "quit"
      BY <3>3, <1>1 DEF TakeEvent, TypeOK, SourceTypes
    <3> QED
      BY <1>2, <1>6, <3>1, <3>2, <3>3 DEF Events
  <2>2. Posted("alloc")' = Posted("alloc")
    BY <1>2, <1>6
  <2>3. OneRefresh'
    <3>1. CASE Head(events) = "refresh"
      BY <3>1, <1>1, <1>2, <2>1 DEF IInv, OneRefresh, TypeOK, LoopTypes
    <3>2. CASE Head(events) # "refresh"
      <4>1. Posted("refresh")' = Posted("refresh")
        BY <1>2, <3>2
      <4> QED
        BY <1>1, <2>1, <3>2, <4>1, ChainKept
    <3> QED
      BY <3>1, <3>2
  <2>4. SourceTypes' /\ RingTypes' /\ LoopTypes'
    BY <1>1, <1>2, <2>1 DEF TypeOK, SourceTypes, RingTypes, LoopTypes
  <2>5. Asked' = Asked
    BY <1>1, <2>1, <2>2 DEF Asked
  <2>6. Overlays'
    BY <1>1, <2>1, <2>5 DEF IInv, Overlays, Fits, Waiting
  <2>7. Room'
    BY <1>1, <2>1 DEF IInv, Room, Waiting
  <2>8. InRing' = InRing
    BY <1>3, <2>1
  <2>9. Pictures'
    BY <1>1, <2>1, <2>8 DEF IInv, Pictures, Place
  <2> QED
    BY <1>4, <2>3, <2>4, <2>6, <2>7, <2>9 DEF IInv, TypeOK
<1> QED
  BY <1>5, <1>6

LEMMA RefreshKeeps ==
  ASSUME IInv, Refresh
  PROVE  IInv'
<1>1. /\ UNCHANGED <<quit, sources, packets, video, ring, events, keys>>
      /\ main = "refresh" /\ timers' = timers + 1 /\ main' \in {"wait", "show"}
      /\ main' = "show" => size # 0
  BY DEF Refresh, ScheduleRefresh
<1>2. UNCHANGED <<pictq, size, rindex, windex, kept, shown, codecSize>> /\ TypeOK
      /\ size \in Nat /\ timers \in Nat
  BY <1>1, Numbers DEF ring, IInv, TypeOK, RingTypes, LoopTypes
<1>3. SourceTypes' /\ PacketTypes' /\ Sleepers' /\ Reading' /\ PacketsBounded' /\ Starting'
      /\ video' \in VideoPlaces
  BY <1>1, <1>2, ElsewhereKept DEF TypeOK
<1>4. RingTypes' /\ LoopTypes'
  BY <1>1, <1>2 DEF TypeOK, RingTypes, LoopTypes
<1>5. OneRefresh'
  <2>1. Posted("refresh")' = Posted("refresh") /\ Posted("refresh") \in Nat
    BY <1>1, SameCounts, Counts
  <2> QED
    BY <1>1, <1>2, <2>1 DEF IInv, OneRefresh
<1>6. Asked' = Asked /\ InRing' = InRing
  BY <1>1, <1>2, SameCounts DEF Asked, InRing
<1>7. Overlays'
  <2>1. /\ quit' = quit /\ video' = video /\ pictq' = pictq /\ windex' = windex /\ size' = size
        /\ codecSize' = codecSize
    BY <1>1, <1>2
  <2>2. \A i \in Slot : pictq[i].bmp # "freed"
    BY <1>1 DEF IInv, Overlays
  <2>3. main' # "tell" /\ main # "tell"
    BY <1>1
  <2> QED
    BY <1>6, <2>1, <2>2, <2>3 DEF IInv, Overlays, Fits, Waiting
<1>8. Room'
  <2>1. main' \in {"show", "take"} => size > 0
    BY <1>1, <1>2
  <2> QED
    BY <1>1, <1>2, <2>1 DEF IInv, Room, Waiting
<1>9. Pictures'
  BY <1>2, <1>6 DEF IInv, Pictures, Place
<1> QED
  BY <1>3, <1>4, <1>5, <1>7, <1>8, <1>9 DEF IInv, TypeOK

LEMMA ShowKeeps ==
  ASSUME IInv, Show
  PROVE  IInv'
<1>1. /\ UNCHANGED <<quit, sources, packets, video, codecSize, pictq, size, windex, kept,
                     events, timers, keys>>
      /\ main = "show" /\ main' = "take" /\ shown' = pictq[rindex].picture
      /\ rindex' = Following(rindex) /\ TypeOK /\ rindex \in Slot /\ Slots \in Nat
      /\ size \in 0 .. Slots /\ size > 0 /\ (video = "count" => size < Slots) /\ shown \in Nat
  BY Numbers DEF Show, loop, IInv, Room, TypeOK, RingTypes, Slot
<1>2. SourceTypes' /\ PacketTypes' /\ Sleepers' /\ Reading' /\ PacketsBounded' /\ Starting'
      /\ video' \in VideoPlaces
  BY <1>1, ElsewhereKept DEF TypeOK
<1>3. LoopTypes' /\ OneRefresh'
  BY <1>1, SameCounts, ChainKept DEF TypeOK, LoopTypes
<1>4. InRing \in 1 .. Slots /\ InRing' = InRing - 1
  BY <1>1 DEF InRing
<1>5. /\ windex = Place(InRing) /\ kept = shown + InRing
      /\ \A k \in 0 .. InRing - 1 :
           pictq[Place(k)].picture = shown + k + 1 /\ pictq[Place(k)].bmp = "made"
  BY DEF IInv, Pictures
<1>6. shown' = shown + 1
  BY <1>1, <1>4, <1>5, Places
<1>7. rindex' = IF rindex + 1 < Slots THEN rindex + 1 ELSE rindex + 1 - Slots
  <2>1. PICK a \in 0 .. 2 * Slots - 1 : a = rindex + 1
    BY <1>1 DEF Slot
  <2>2. a % Slots = IF a < Slots THEN a ELSE a - Slots
    BY Modulo
  <2> QED
    BY <1>1, <2>1, <2>2 DEF Following, Slot
<1>8. rindex' \in Slot
  BY <1>1, <1>7 DEF Slot
<1>9. \A k \in 0 .. Slots - 1 : Place(k)' = Place(k + 1)
  <2> SUFFICES ASSUME NEW k \in 0 .. Slots - 1 PROVE Place(k)' = Place(k + 1)
    OBVIOUS
  <2>1. Place(k + 1) = IF rindex + (k + 1) < Slots THEN rindex + (k + 1)
                                                  ELSE rindex + (k + 1) - Slots
    BY <1>1, Places
  <2>2. PICK a \in 0 .. 2 * Slots - 1 : a = rindex' + k
    BY <1>1, <1>8 DEF Slot
  <2>3. a % Slots = IF a < Slots THEN a ELSE a - Slots
    BY Modulo
  <2>4. Place(k)' = a % Slots
    BY <2>2 DEF Place
  <2> QED
    BY <1>1, <1>7, <2>1, <2>2, <2>3, <2>4 DEF Slot
<1>10. RingTypes'
  <2>1. shown' \in Nat
    BY <1>1, <1>6
  <2> QED
    BY <1>1, <1>8, <2>1 DEF TypeOK, RingTypes, Slot
<1>11. Asked' = Asked
  BY <1>1, SameCounts DEF Asked
<1>12. Overlays'
  BY <1>1, <1>11 DEF IInv, Overlays, Fits, Waiting
<1>13. Room'
  BY <1>1 DEF IInv, Room, Waiting
<1>14. Pictures'
  <2>1. PICK n \in 0 .. Slots - 1 : n = InRing - 1
    BY <1>1, <1>4
  <2>2. InRing' = n /\ InRing = n + 1
    BY <1>4, <2>1
  <2>3. kept' = shown' + InRing'
    BY <1>1, <1>5, <1>6, <2>2
  <2>4. windex' = Place(n)'
    BY <1>1, <1>5, <1>9, <2>2
  <2>5. windex' = (rindex' + InRing') % Slots
    BY <2>2, <2>4 DEF Place
  <2>6. ASSUME NEW k \in 0 .. InRing' - 1
        PROVE  pictq'[Place(k)'].picture = shown' + k + 1 /\ pictq'[Place(k)'].bmp = "made"
    <3>1. k \in 0 .. Slots - 1 /\ k + 1 \in 0 .. InRing - 1 /\ k \in Nat
      <4>1. k \in 0 .. n - 1
        BY <2>2, <2>6
      <4>2. k \in 0 .. Slots - 1 /\ k + 1 \in 0 .. n /\ k \in Nat
        BY <4>1, <2>1, <1>1
      <4>3. InRing - 1 = n
        BY <2>1, <2>2
      <4> QED
        BY <4>2, <4>3
    <3>2. Place(k)' = Place(k + 1)
      BY <1>9, <3>1
    <3>3. pictq[Place(k + 1)].picture = shown + (k + 1) + 1 /\ pictq[Place(k + 1)].bmp = "made"
      BY <1>5, <3>1
    <3>4. shown' + k + 1 = shown + (k + 1) + 1
      BY <1>1, <1>6, <3>1
    <3> QED
      BY <1>1, <3>2, <3>3, <3>4
  <2>7. windex' = Place(InRing)'
    BY <2>5 DEF Place
  <2> QED
    BY <2>3, <2>6, <2>7 DEF Pictures
<1> QED
  BY <1>2, <1>3, <1>10, <1>12, <1>13, <1>14 DEF IInv, TypeOK

(* SignalRing moves nobody but a sleeper on pictq_cond. *)
LEMMA Signalled ==
  ASSUME IInv, SignalRing
  PROVE  /\ video' = video \/ (video = "room asleep" /\ video' = "room")
            \/ (video = "alloc asleep" /\ video' = "alloc")
         /\ video' \in VideoPlaces
         /\ video' # "room asleep" /\ video' # "alloc asleep"
         /\ video' = "get asleep" => video = "get asleep"
  BY DEF SignalRing, IInv, TypeOK, VideoPlaces

LEMMA TakePictureKeeps ==
  ASSUME IInv, TakePicture
  PROVE  IInv'
<1>1. /\ UNCHANGED <<quit, sources, packets, codecSize, pictq, rindex, windex, kept, shown,
                     events, timers, keys>>
      /\ main = "take" /\ main' = "wait" /\ TypeOK /\ SignalRing
      /\ size \in 0 .. Slots /\ size > 0 /\ Slots \in Nat /\ size' = size - 1
  BY Numbers DEF TakePicture, loop, IInv, Room, TypeOK, RingTypes
<1>2. /\ video' = video \/ (video = "room asleep" /\ video' = "room")
         \/ (video = "alloc asleep" /\ video' = "alloc")
      /\ video' \in VideoPlaces
      /\ video' # "room asleep" /\ video' # "alloc asleep"
      /\ video' = "get asleep" => video = "get asleep"
  BY <1>1, Signalled
<1>3. SourceTypes' /\ PacketTypes' /\ Reading' /\ PacketsBounded'
  BY <1>1 DEF IInv, TypeOK, SourceTypes, PacketTypes, Reading, PacketsBounded, sources, packets
<1>4. Sleepers' /\ Starting'
  BY <1>1, <1>2 DEF IInv, Sleepers, Starting, sources, packets
<1>5. LoopTypes' /\ OneRefresh'
  BY <1>1, SameCounts, ChainKept DEF TypeOK, LoopTypes
<1>6. RingTypes'
  <2>1. size' \in 0 .. Slots
    BY <1>1
  <2> QED
    BY <1>1, <2>1 DEF TypeOK, RingTypes
<1>7. Asked' = Asked /\ InRing' = InRing
  <2>1. Asked' = Asked
    BY <1>1, SameCounts DEF Asked
  <2>2. video' = "count" <=> video = "count"
    BY <1>2
  <2>3. size \in Int /\ size' = size - 1
    BY <1>1
  <2>4. InRing' = InRing
    BY <1>1, <2>2, <2>3 DEF InRing
  <2> QED
    BY <2>1, <2>4
<1>8. Overlays'
  <2>1. Asked = 1 => size' < Slots
    BY <1>1
  <2> QED
    BY <1>1, <1>2, <1>7, <2>1 DEF IInv, Overlays, Fits, Waiting
<1>9. Room'
  <2>1. size' < Slots
    BY <1>1
  <2> QED
    BY <1>1, <2>1 DEF Room
<1>10. Pictures'
  BY <1>1, <1>7 DEF IInv, Pictures, Place
<1> QED
  BY <1>2, <1>3, <1>4, <1>5, <1>6, <1>8, <1>9, <1>10 DEF IInv, TypeOK

(* While main makes an overlay, video_thread waits for it or is at its end. *)
LEMMA Making ==
  ASSUME IInv, main \in {"make", "tell"}
  PROVE  /\ Asked = 1 /\ Posted("alloc") = 0
         /\ video \in Waiting \/ (quit /\ video \in {"alloced", "ended"})
         /\ video # "count" /\ size < Slots /\ windex \in Slot /\ TypeOK
         /\ ~pictq[windex].allocated
<1>1. Asked = 1 /\ Posted("alloc") = 0
  BY Counts
<1>2. /\ video \in Waiting \/ (quit /\ video \in {"alloced", "ended"})
      /\ size < Slots /\ ~pictq[windex].allocated
  BY <1>1 DEF IInv, Overlays
<1> QED
  BY <1>1, <1>2 DEF IInv, TypeOK, RingTypes, Slot, Waiting

LEMMA MakeOverlayKeeps ==
  ASSUME IInv, MakeOverlay
  PROVE  IInv'
<1>1. /\ UNCHANGED <<quit, sources, packets, video, codecSize, size, rindex, windex, kept, shown,
                     events, timers, keys>>
      /\ main = "make" /\ main' = "tell"
  BY DEF MakeOverlay, loop
<1>2. /\ Asked = 1 /\ Posted("alloc") = 0
      /\ video \in Waiting \/ (quit /\ video \in {"alloced", "ended"})
      /\ video # "count" /\ size < Slots /\ windex \in Slot /\ TypeOK
      /\ ~pictq[windex].allocated
  BY <1>1, Making
<1>3. PICK bmp \in {"made", "none"} :
        pictq' = [pictq EXCEPT ![windex].bmp = bmp, ![windex].size = codecSize]
  BY DEF MakeOverlay
<1>4. /\ \A i \in Slot : i # windex => pictq'[i] = pictq[i]
      /\ pictq'[windex].allocated = pictq[windex].allocated
      /\ pictq'[windex].bmp = bmp /\ pictq'[windex].size = codecSize
      /\ RingTypes'
  BY <1>1, <1>2, <1>3 DEF TypeOK, RingTypes, Slot
<1>5. SourceTypes' /\ PacketTypes' /\ Sleepers' /\ Reading' /\ PacketsBounded' /\ Starting'
      /\ video' \in VideoPlaces
  BY <1>1, <1>2, ElsewhereKept DEF TypeOK
<1>6. LoopTypes' /\ OneRefresh'
  BY <1>1, <1>2, SameCounts, ChainKept DEF TypeOK, LoopTypes
<1>7. Asked' = 1 /\ InRing' = InRing
  BY <1>1, <1>2, SameCounts DEF Asked, InRing
<1>8. Fits'
  BY <1>1, <1>4 DEF Fits
<1>9. \A i \in Slot : pictq'[i].bmp # "freed"
  BY <1>1, <1>4 DEF IInv, Overlays
<1>10. Overlays'
  <2>1. ~pictq'[windex'].allocated
    BY <1>1, <1>2, <1>4
  <2>a. Asked' = 1
    BY <1>7
  <2>b. quit' = quit
    BY <1>1
  <2>c. video' = video /\ size' < Slots /\ main' = "tell"
    BY <1>1, <1>2
  <2>2. CASE video \in Waiting
    <3>1. Asked' \in {0, 1}
      BY <2>a, <2>c, <1>8, <1>9, <2>1, <2>2 DEF Waiting
    <3>a. video' \in Waiting /\ size' < Slots
      BY <2>c, <2>2
    <3>2. Asked' = 1 => /\ video' \in Waiting \/ (quit' /\ video' \in {"alloced", "ended"})
                       /\ size' < Slots /\ ~pictq'[windex'].allocated
      BY <2>1, <3>a, Zenon
    <3>b. Asked' # 0
      BY <2>a
    <3>3. video' \in Waiting /\ Asked' = 0 => video' = "alloc" /\ pictq'[windex'].allocated /\ Fits'
      BY <3>b, Zenon
    <3>4. video' = "alloced" /\ ~quit' => Asked' = 0 /\ Fits'
      BY <2>a, <2>c, <1>8, <1>9, <2>1, <2>2 DEF Waiting
    <3>5. video' = "fill" => Asked' = 0 /\ Fits' /\ pictq'[windex'].bmp = "made"
      BY <2>a, <2>c, <1>8, <1>9, <2>1, <2>2 DEF Waiting
    <3>6. main' = "tell" => Fits'
      BY <2>a, <2>c, <1>8, <1>9, <2>1, <2>2 DEF Waiting
    <3>7. \A i \in Slot : pictq'[i].bmp = "freed" => main' = "make" /\ i = windex'
      BY <2>a, <2>c, <1>8, <1>9, <2>1, <2>2 DEF Waiting
    <3> QED
      BY <3>1, <3>2, <3>3, <3>4, <3>5, <3>6, <3>7 DEF Overlays
  <2>3. CASE quit /\ video \in {"alloced", "ended"}
    BY <2>a, <2>b, <2>c, <1>8, <1>9, <2>1, <2>3 DEF Overlays, Waiting
  <2> QED
    BY <1>2, <2>2, <2>3
<1>11. Room'
  BY <1>1, <1>2 DEF Room
<1>12. Pictures'
  BY <1>1, <1>2, <1>4, <1>7, OthersKept
<1> QED
  BY <1>4, <1>5, <1>6, <1>10, <1>11, <1>12 DEF IInv, TypeOK

LEMMA TellOverlayKeeps ==
  ASSUME IInv, TellOverlay
  PROVE  IInv'
<1>1. /\ UNCHANGED <<quit, sources, packets, codecSize, size, rindex, windex, kept, shown,
                     events, timers, keys>>
      /\ main = "tell" /\ main' = "wait" /\ SignalRing
      /\ pictq' = [pictq EXCEPT ![windex].allocated = TRUE]
  BY DEF TellOverlay, loop
<1>2. /\ Asked = 1 /\ Posted("alloc") = 0
      /\ video \in Waiting \/ (quit /\ video \in {"alloced", "ended"})
      /\ video # "count" /\ size < Slots /\ windex \in Slot /\ TypeOK /\ Fits
  BY <1>1, Making DEF IInv, Overlays
<1>3. /\ \A i \in Slot : i # windex => pictq'[i] = pictq[i]
      /\ pictq'[windex].allocated = TRUE
      /\ \A i \in Slot : pictq'[i].bmp = pictq[i].bmp
      /\ pictq'[windex].size = pictq[windex].size
      /\ RingTypes'
  BY <1>1, <1>2 DEF TypeOK, RingTypes, Slot
<1>4. /\ video' = video \/ (video = "alloc asleep" /\ video' = "alloc")
      /\ video' \in VideoPlaces /\ video' # "alloc asleep"
  BY <1>1, <1>2, Signalled DEF Waiting
<1>5. SourceTypes' /\ PacketTypes' /\ Sleepers' /\ Reading' /\ PacketsBounded' /\ Starting'
  <2>1. video' \notin {"get asleep", "room asleep"} /\ video # "off"
    BY <1>2, <1>4 DEF Waiting
  <2> QED
    BY <1>1, <2>1, ElsewhereKept DEF IInv, Starting
<1>6. LoopTypes' /\ OneRefresh'
  BY <1>1, <1>2, SameCounts, ChainKept DEF TypeOK, LoopTypes
<1>7. Asked' = 0 /\ InRing' = InRing
  <2>1. Asked' = 0
    BY <1>1, <1>2, SameCounts DEF Asked
  <2>2. video' # "count" /\ video # "count"
    BY <1>2, <1>4
  <2>3. InRing' = InRing
    BY <1>1, <2>2 DEF InRing
  <2> QED
    BY <2>1, <2>3
<1>8. Fits' /\ pictq'[windex'].allocated
  BY <1>1, <1>2, <1>3 DEF Fits
<1>9. \A i \in Slot : pictq'[i].bmp # "freed"
  BY <1>1, <1>3 DEF IInv, Overlays
<1>10. Overlays'
  <2>1. CASE video \in Waiting
    <3>1. video' = "alloc"
      BY <1>4, <2>1 DEF Waiting
    <3> QED
      BY <1>1, <1>7, <1>8, <1>9, <3>1 DEF Overlays, Waiting
  <2>2. CASE quit /\ video \in {"alloced", "ended"}
    <3>1. quit' = quit
      BY <1>1
    <3>2. video' \in {"alloced", "ended"} /\ main' = "wait" /\ Asked' = 0
      BY <1>1, <1>4, <1>7, <2>2
    <3>3. Overlays'
      <4>1. Asked' \in {0, 1}
        BY <1>9, <2>2, <3>1, <3>2 DEF Waiting
      <4>a. Asked' # 1
        BY <3>2
      <4>2. Asked' = 1 => /\ video' \in Waiting \/ (quit' /\ video' \in {"alloced", "ended"})
                       /\ size' < Slots /\ ~pictq'[windex'].allocated
        BY <4>a, Zenon
      <4>3. video' \in Waiting /\ Asked' = 0 => video' = "alloc" /\ pictq'[windex'].allocated /\ Fits'
        BY <1>9, <2>2, <3>1, <3>2 DEF Waiting
      <4>4. video' = "alloced" /\ ~quit' => Asked' = 0 /\ Fits'
        BY <1>9, <2>2, <3>1, <3>2 DEF Waiting
      <4>5. video' = "fill" => Asked' = 0 /\ Fits' /\ pictq'[windex'].bmp = "made"
        BY <1>9, <2>2, <3>1, <3>2 DEF Waiting
      <4>6. main' = "tell" => Fits'
        BY <1>9, <2>2, <3>1, <3>2 DEF Waiting
      <4>7. \A i \in Slot : pictq'[i].bmp = "freed" => main' = "make" /\ i = windex'
        BY <1>9, <2>2, <3>1, <3>2 DEF Waiting
      <4> QED
        BY <4>1, <4>2, <4>3, <4>4, <4>5, <4>6, <4>7 DEF Overlays
    <3> QED
      BY <3>3
  <2> QED
    BY <1>2, <2>1, <2>2
<1>11. Room'
  BY <1>1, <1>2, <1>4 DEF Room
<1>12. Pictures'
  BY <1>1, <1>2, <1>3, <1>7, OthersKept
<1> QED
  BY <1>3, <1>4, <1>5, <1>6, <1>10, <1>11, <1>12 DEF IInv, TypeOK

-----------------------------------------------------------------------------
(* The theorems *)

LEMMA StepIInv == IInv /\ [Next]_vars => IInv'
<1> SUFFICES ASSUME IInv, [Next]_vars PROVE IInv'
  OBVIOUS
<1>1. CASE PressKey \/ CloseWindow
  BY <1>1, UserKeeps
<1>2. CASE TimerFires
  BY <1>2, TimerKeeps
<1>3. CASE DecodeThread
  BY <1>3, OpeningKeeps, LoopKeeps, CheckKeeps, ReadFrameKeeps DEF DecodeThread
<1>4. CASE VideoThread
  BY <1>4, GetVideoKeeps, DecodeKeeps, AskForOverlayKeeps, WaitForOverlayKeeps,
     HaveOverlayKeeps, FillKeeps, CountPictureKeeps DEF VideoThread
<1>5. CASE GetAudio
  BY <1>5, AudioKeeps
<1>6. CASE Main
  BY <1>6, TakeEventKeeps, RefreshKeeps, ShowKeeps, TakePictureKeeps, MakeOverlayKeeps,
     TellOverlayKeeps DEF Main
<1>7. CASE UNCHANGED vars
  <2>1. /\ UNCHANGED <<quit, sources, packets, video, ring, main, loop>>
        /\ UNCHANGED <<codecSize, pictq, size, rindex, windex, kept, shown, events, timers, keys>>
    BY <1>7 DEF vars, ring, loop
  <2>2. Posted("alloc")' = Posted("alloc") /\ Posted("refresh")' = Posted("refresh")
    BY <2>1, SameCounts
  <2>3. Overlays' /\ Room' /\ Pictures'
    <3>1. video' = "slot" => quit \/ size < Slots
      BY <2>1 DEF IInv, Room
    <3> QED
      BY <2>1, <2>2, <3>1, RingLeftAlone
  <2>4. OneRefresh'
    BY <2>1, <2>2, ChainKept
  <2>5. SourceTypes' /\ PacketTypes' /\ video' \in VideoPlaces /\ RingTypes' /\ LoopTypes'
    BY <2>1 DEF IInv, TypeOK, SourceTypes, PacketTypes, RingTypes, LoopTypes, sources, packets
  <2>6. Sleepers' /\ Reading' /\ PacketsBounded' /\ Starting'
    BY <2>1 DEF IInv, Sleepers, Reading, PacketsBounded, Starting, sources, packets
  <2> QED
    BY <2>3, <2>4, <2>5, <2>6 DEF IInv, TypeOK
<1> QED
  BY <1>1, <1>2, <1>3, <1>4, <1>5, <1>6, <1>7 DEF Next

(* The inductive invariant: of the overlays asked for, the pictures in the   *)
(* ring, the chain of refreshes and the sleepers together.                   *)
THEOREM Invariance == Spec => []IInv
<1> QED
  BY InitIInv, StepIInv, PTL DEF Spec

LEMMA OverlayApart ==
  ASSUME IInv
  PROVE  OverlaySafe
<1>1. ASSUME video = "fill"
      PROVE  /\ pictq[windex].bmp = "made" /\ pictq[windex].size = codecSize
             /\ main \notin {"make", "tell"} /\ Posted("alloc") = 0
             /\ ~(main = "show" /\ rindex = windex)
  <2>1. Asked = 0 /\ Fits /\ pictq[windex].bmp = "made" /\ size < Slots
    BY <1>1 DEF IInv, Overlays, Room
  <2>2. main \notin {"make", "tell"} /\ Posted("alloc") = 0
    BY <2>1, Counts
  <2>3. ASSUME main = "show" PROVE rindex # windex
    <3>1. size \in 0 .. Slots /\ size > 0 /\ TypeOK /\ Slots \in Nat
      BY <2>3, Numbers DEF IInv, Room, TypeOK, RingTypes
    <3>2. InRing = size /\ video # "count"
      BY <1>1, <2>3, <3>1 DEF InRing
    <3>3. \A k \in 0 .. InRing - 1 : Place(k) # windex
      BY <2>1, <3>2, NextSlotFree
    <3> QED
      BY <3>1, <3>2, <3>3, Places
  <2> QED
    BY <2>1, <2>2, <2>3 DEF Fits
<1>2. ASSUME main = "show"
      PROVE  pictq[rindex].bmp = "made"
  <2>1. size \in 0 .. Slots /\ size > 0 /\ TypeOK /\ Slots \in Nat
    BY <1>2, Numbers DEF IInv, Room, TypeOK, RingTypes
  <2>2. 0 \in 0 .. InRing - 1
    BY <1>2, <2>1 DEF InRing
  <2>3. pictq[Place(0)].bmp = "made"
    BY <2>2 DEF IInv, Pictures
  <2> QED
    BY <2>1, <2>3, Places
<1> QED
  BY <1>1, <1>2 DEF OverlaySafe

LEMMA RingInOrder ==
  ASSUME IInv
  PROVE  PicturesInOrder
<1>1. /\ rindex \in Nat /\ shown \in Nat /\ kept = shown + InRing
      /\ \A k \in 0 .. InRing - 1 : pictq[(rindex + k) % Slots].picture = shown + k + 1
  BY Numbers DEF IInv, Pictures, Place, TypeOK, RingTypes
<1>2. InRing \in Int
  BY Numbers DEF IInv, TypeOK, RingTypes, InRing
<1>3. ASSUME NEW k \in 1 .. InRing
      PROVE  pictq[(rindex + k - 1) % Slots].picture = shown + k
  <2>1. PICK j \in 0 .. InRing - 1 : j = k - 1
    BY <1>2
  <2>2. rindex + k - 1 = rindex + j /\ shown + k = shown + j + 1
    BY <1>1, <1>2, <2>1
  <2> QED
    BY <1>1, <2>2
<1> QED
  BY <1>1, <1>3 DEF PicturesInOrder

LEMMA SleepersAwaited ==
  ASSUME IInv
  PROVE  SleepersHaveReason
<1>1. ASSUME video = "alloc asleep"
      PROVE  ~pictq[windex].allocated /\ (Posted("alloc") = 1 \/ main \in {"make", "tell"})
  <2>1. Asked = 1 /\ ~pictq[windex].allocated
    BY <1>1, Counts DEF IInv, Overlays, Waiting
  <2>2. Posted("alloc") = 1 \/ main \in {"make", "tell"}
    BY <2>1, Counts
  <2> QED
    BY <2>1, <2>2
<1> QED
  BY <1>1 DEF IInv, Sleepers, SleepersHaveReason

(* SDL_MPEG.cpp:573-597, 599-700, 450: the overlay                           *)
(* video_thread fills exists, fits the frame and is in nobody else's hands,  *)
(* and main shows only overlays that exist, for any number of slots.         *)
THEOREM OverlaysSafe == Spec => []OverlaySafe
<1>1. IInv => OverlaySafe
  BY OverlayApart
<1> QED
  BY <1>1, Invariance, PTL

(* SDL_MPEG.cpp:494-571, 599-700: no picture is lost,                        *)
(* shown twice or out of turn.                                               *)
THEOREM PicturesOrdered == Spec => []PicturesInOrder
<1>1. IInv => PicturesInOrder
  BY RingInOrder
<1> QED
  BY <1>1, Invariance, PTL

(* SDL_MPEG.cpp:435-448, 494-571: exactly one                                *)
(* timer runs, or has fired and is not answered.                             *)
THEOREM OneRefreshAlways == Spec => []OneRefresh
<1>1. IInv => OneRefresh
  BY DEF IInv
<1> QED
  BY <1>1, Invariance, PTL

(* SDL_MPEG.cpp:151-199, 599-660: whoever sleeps still                       *)
(* has a reason to, and video_thread asleep for an overlay is about to be    *)
(* told: no signal is lost.                                                  *)
THEOREM NoSignalLost == Spec => []SleepersHaveReason
<1>1. IInv => SleepersHaveReason
  BY SleepersAwaited
<1> QED
  BY <1>1, Invariance, PTL

(* SDL_MPEG.cpp:983-988: each packet queue exceeds its limit by one          *)
(* packet at most.                                                           *)
THEOREM PacketsLimited == Spec => []PacketsBounded
<1>1. IInv => PacketsBounded
  BY DEF IInv
<1> QED
  BY <1>1, Invariance, PTL
=============================================================================
