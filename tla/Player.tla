------------------------------- MODULE Player -------------------------------
(***************************************************************************)
(* MyPlayer/SDL_MPEG/SDL_MPEG.cpp: the threads of the player.              *)
(*                                                                         *)
(* decode_thread reads packets into two packet queues, video_thread turns  *)
(* them into pictures in the ring pictq, main shows a picture whenever a   *)
(* one-shot timer has posted FF_REFRESH_EVENT, and SDL's audio thread      *)
(* empties the other packet queue.  Only main may make an overlay, so      *)
(* video_thread posts FF_ALLOC_EVENT and waits.                            *)
(*                                                                         *)
(* The file is a sequence of packets, sizes are counted in packets, and a  *)
(* picture is known by its number in the order in which pictures were put  *)
(* in the ring.  SDL's event queue is taken to have room (it drops events  *)
(* beyond 128).  A mutex of SDL is held over one step only, and a thread   *)
(* asleep in SDL_CondWait is at a place whose name says so.                *)
(***************************************************************************)
EXTENDS Naturals, FiniteSets, Sequences, SequencesExt

CONSTANTS
  File,        \* the kind of each packet of the file: "video", "audio" or "other"
  MaxVideo,    \* MAX_VIDEOQ_SIZE, in packets
  MaxAudio,    \* MAX_AUDIOQ_SIZE, in packets
  Slots,       \* VIDEO_PICTURE_QUEUE_SIZE
  Sizes,       \* the sizes the codec may give a frame
  Keys         \* bound: how many keys the user presses

ASSUME PlayerAssumption ==
  /\ File \in Seq({"video", "audio", "other"})
  /\ MaxVideo \in Nat /\ MaxAudio \in Nat /\ Keys \in Nat
  /\ Slots \in Nat \ {0} /\ 0 \notin Sizes

VARIABLES
  quit,        \* is->quit
  seekReq,     \* is->seek_req
  position,    \* how many packets of the file were read
  reader,      \* where decode_thread is
  videoq, audioq,
  video,       \* where video_thread is
  audio,       \* where the audio thread is
  codecSize,   \* codec->width, height
  pictq, size, rindex, windex,
  main,        \* where main is
  events,      \* SDL's event queue
  timers,      \* how many timers are running
  keys,        \* how many keys were pressed
  kept,        \* how many pictures were put in the ring
  shown        \* the number of the picture on the screen

sources == <<seekReq, position, reader>>
packets == <<videoq, audioq, audio>>
ring == <<codecSize, pictq, size, rindex, windex, kept, shown>>
loop == <<events, timers, keys>>
vars == <<quit, sources, packets, video, ring, main, loop>>

VideoPlaces == {"off", "get", "get asleep", "decode", "room", "room asleep", "slot",
                "alloc", "alloc asleep", "alloced", "fill", "count", "ended"}

SourceTypes ==
  /\ quit \in BOOLEAN /\ seekReq \in BOOLEAN
  /\ position \in 0 .. Len(File)
  /\ reader \in {"start", "open audio", "open video", "loop", "check", "read", "wait", "fail", "returned"}

PacketTypes ==
  /\ videoq \in Seq(1 .. Len(File)) /\ audioq \in Seq(1 .. Len(File))
  /\ audio \in {"off", "get", "get asleep"}

RingTypes ==
  /\ codecSize \in Sizes
  /\ pictq \in [0 .. Slots - 1 -> [bmp : {"none", "freed", "made"}, size : Sizes \cup {0},
                                   allocated : BOOLEAN, picture : Nat]]
  /\ size \in 0 .. Slots /\ rindex \in 0 .. Slots - 1 /\ windex \in 0 .. Slots - 1
  /\ kept \in Nat /\ shown \in Nat

Events == {"refresh", "alloc", "key", "quit"}
LoopTypes ==
  /\ main \in {"wait", "refresh", "show", "take", "make", "tell", "quit"}
  /\ events \in Seq(Events) /\ timers \in Nat /\ keys \in 0 .. Keys

TypeOK == SourceTypes /\ PacketTypes /\ video \in VideoPlaces /\ RingTypes /\ LoopTypes

(* main starts the first timer and decode_thread, then waits for events. *)
Init ==
  /\ quit = FALSE /\ seekReq = FALSE /\ position = 0 /\ reader = "start"
  /\ videoq = << >> /\ audioq = << >> /\ video = "off" /\ audio = "off"
  /\ codecSize \in Sizes
  /\ pictq = [i \in 0 .. Slots - 1 |-> [bmp |-> "none", size |-> 0, allocated |-> FALSE, picture |-> 0]]
  /\ size = 0 /\ rindex = 0 /\ windex = 0
  /\ main = "wait" /\ events = << >> /\ timers = 1 /\ keys = 0
  /\ kept = 0 /\ shown = 0

-----------------------------------------------------------------------------
(* The user and the timer *)

PushEvent(e) == events' = Append(events, e)

PressKey ==
  /\ keys < Keys
  /\ keys' = keys + 1
  /\ PushEvent("key")
  /\ UNCHANGED <<quit, sources, packets, video, ring, main, timers>>

CloseWindow ==
  /\ ~Contains(events, "quit")
  /\ PushEvent("quit")
  /\ UNCHANGED <<quit, sources, packets, video, ring, main, timers, keys>>

(* sdl_refresh_timer_cb: the timer does not start again. *)
TimerFires ==
  /\ timers > 0
  /\ timers' = timers - 1
  /\ PushEvent("refresh")
  /\ UNCHANGED <<quit, sources, packets, video, ring, main, keys>>

-----------------------------------------------------------------------------
(* decode_thread *)

(* global_video_state is set, then the file is opened or the thread gives up *)
(* without a word to main.                                                   *)
OpenFile ==
  /\ reader = "start"
  /\ reader' \in {"open audio", "returned"}
  /\ UNCHANGED <<quit, seekReq, position, packets, video, ring, main, loop>>

(* The stream exists and has a codec, or not. *)
OpenAudio ==
  /\ reader = "open audio"
  /\ reader' = "open video"
  /\ audio' \in {"off", "get"}
  /\ UNCHANGED <<quit, seekReq, position, videoq, audioq, video, ring, main, loop>>

OpenVideo ==
  /\ reader = "open video"
  /\ video' \in {"off", "get"}
  /\ reader' = IF video' = "off" \/ audio = "off" THEN "fail" ELSE "loop"
  /\ UNCHANGED <<quit, seekReq, position, packets, ring, main, loop>>

(* av_seek_frame returns 0 when it has moved; the queues are only flushed    *)
(* when it returns something else.                                           *)
Seek ==
  /\ seekReq' = FALSE
  /\ \/ ~seekReq /\ UNCHANGED <<position, videoq, audioq>>
     \/ seekReq /\ position' \in 0 .. Len(File) /\ UNCHANGED <<videoq, audioq>>
     \/ seekReq /\ videoq' = << >> /\ audioq' = << >> /\ UNCHANGED position

Loop ==
  /\ reader = "loop"
  /\ \/ quit /\ reader' = "wait" /\ UNCHANGED <<seekReq, position, videoq, audioq>>
     \/ ~quit /\ reader' = "check" /\ Seek
  /\ UNCHANGED <<quit, audio, video, ring, main, loop>>

Overfull == Len(videoq) > MaxVideo \/ Len(audioq) > MaxAudio

CheckSizes ==
  /\ reader = "check"
  /\ reader' = IF Overfull THEN "loop" ELSE "read"
  /\ UNCHANGED <<quit, seekReq, position, packets, video, ring, main, loop>>

(* packet_queue_put and its signal. *)
PutVideo ==
  /\ videoq' = Append(videoq, position')
  /\ video' = IF video = "get asleep" THEN "get" ELSE video

PutAudio ==
  /\ audioq' = Append(audioq, position')
  /\ audio' = IF audio = "get asleep" THEN "get" ELSE audio

ReadFrame ==
  /\ reader = "read" /\ position < Len(File)
  /\ position' = position + 1
  /\ reader' = "loop"
  /\ CASE File[position'] = "video" -> PutVideo /\ UNCHANGED <<audioq, audio>>
       [] File[position'] = "audio" -> PutAudio /\ UNCHANGED <<videoq, video>>
       [] OTHER -> UNCHANGED <<videoq, video, audioq, audio>>
  /\ UNCHANGED <<quit, seekReq, ring, main, loop>>

(* At the end of the file the thread waits for a seek, after an error for    *)
(* the end.                                                                  *)
ReadNothing ==
  /\ reader = "read"
  /\ \/ position = Len(File) /\ reader' = "loop"
     \/ reader' = "wait"
  /\ UNCHANGED <<quit, seekReq, position, packets, video, ring, main, loop>>

WaitForQuit ==
  /\ reader = "wait" /\ quit
  /\ reader' = "fail"
  /\ UNCHANGED <<quit, seekReq, position, packets, video, ring, main, loop>>

Fail ==
  /\ reader = "fail"
  /\ reader' = "returned"
  /\ PushEvent("quit")
  /\ UNCHANGED <<quit, seekReq, position, packets, video, ring, main, timers, keys>>

DecodeThread ==
  \/ OpenFile \/ OpenAudio \/ OpenVideo \/ Loop \/ CheckSizes
  \/ ReadFrame \/ ReadNothing \/ WaitForQuit \/ Fail

-----------------------------------------------------------------------------
(* video_thread *)

GetVideo ==
  /\ video = "get"
  /\ \/ quit /\ video' = "ended" /\ UNCHANGED videoq
     \/ ~quit /\ videoq # << >> /\ videoq' = Tail(videoq) /\ video' = "decode"
     \/ ~quit /\ videoq = << >> /\ video' = "get asleep" /\ UNCHANGED videoq
  /\ UNCHANGED <<quit, sources, audioq, audio, ring, main, loop>>

(* A packet may not complete a frame, and a frame may have another size. *)
Decode ==
  /\ video = "decode"
  /\ codecSize' \in Sizes
  /\ video' \in {"get", "room"}
  /\ UNCHANGED <<quit, sources, packets, pictq, size, rindex, windex, kept, shown, main, loop>>

WaitForRoom_Once ==
  /\ video = "room"
  /\ video' = IF size >= Slots + 1 THEN "room asleep" ELSE "slot"
  /\ UNCHANGED <<quit, sources, packets, ring, main, loop>>

WaitForRoom ==
  /\ video = "room"
  /\ video' = IF size >= Slots /\ ~quit THEN "room asleep" ELSE "slot"
  /\ UNCHANGED <<quit, sources, packets, ring, main, loop>>

Misfit_NoOverlay(slot) == slot.bmp = "none"

Misfit(slot) == slot.bmp = "none" \/ slot.size # codecSize

AskForOverlay ==
  /\ video = "slot"
  /\ \/ quit /\ video' = "ended" /\ UNCHANGED <<pictq, events>>
     \/ ~quit /\ ~Misfit(pictq[windex]) /\ video' = "fill" /\ UNCHANGED <<pictq, events>>
     \/ /\ ~quit /\ Misfit(pictq[windex])
        /\ video' = "alloc"
        /\ pictq' = [pictq EXCEPT ![windex].allocated = FALSE]
        /\ PushEvent("alloc")
  /\ UNCHANGED <<quit, sources, packets, codecSize, size, rindex, windex, kept, shown,
                 main, timers, keys>>

WaitForOverlay ==
  /\ video = "alloc"
  /\ video' = IF pictq[windex].allocated \/ quit THEN "alloced" ELSE "alloc asleep"
  /\ UNCHANGED <<quit, sources, packets, ring, main, loop>>

(* Without an overlay the frame is dropped. *)
HaveOverlay ==
  /\ video = "alloced"
  /\ video' = IF quit THEN "ended" ELSE IF pictq[windex].bmp = "none" THEN "get" ELSE "fill"
  /\ UNCHANGED <<quit, sources, packets, ring, main, loop>>

Following(i) == (i + 1) % Slots

Fill ==
  /\ video = "fill"
  /\ kept' = kept + 1
  /\ pictq' = [pictq EXCEPT ![windex].picture = kept']
  /\ windex' = Following(windex)
  /\ video' = "count"
  /\ UNCHANGED <<quit, sources, packets, codecSize, size, rindex, shown, main, loop>>

CountPicture ==
  /\ video = "count"
  /\ size' = size + 1
  /\ video' = "get"
  /\ UNCHANGED <<quit, sources, packets, codecSize, pictq, rindex, windex, kept, shown, main, loop>>

VideoThread ==
  \/ GetVideo \/ Decode \/ WaitForRoom \/ AskForOverlay \/ WaitForOverlay
  \/ HaveOverlay \/ Fill \/ CountPicture

-----------------------------------------------------------------------------
(* The audio thread in audio_callback; after quit it only plays silence. *)

GetAudio ==
  /\ audio = "get" /\ ~quit
  /\ \/ audioq # << >> /\ audioq' = Tail(audioq) /\ UNCHANGED audio
     \/ audioq = << >> /\ audio' = "get asleep" /\ UNCHANGED audioq
  /\ UNCHANGED <<quit, sources, videoq, video, ring, main, loop>>

-----------------------------------------------------------------------------
(* main *)

TakeEvent ==
  /\ main = "wait" /\ events # << >>
  /\ events' = Tail(events)
  /\ CASE Head(events) = "refresh" -> main' = "refresh" /\ UNCHANGED <<quit, seekReq, pictq>>
       [] Head(events) = "alloc" ->
            (* alloc_picture frees the overlay that does not fit. *)
            /\ main' = "make"
            /\ pictq' = [pictq EXCEPT ![windex].bmp = IF @ = "none" THEN "none" ELSE "freed"]
            /\ UNCHANGED <<quit, seekReq>>
       [] Head(events) = "key" ->
            (* stream_seek; a request that is not served yet swallows this one *)
            /\ seekReq' = (seekReq \/ reader # "start")
            /\ UNCHANGED <<main, quit, pictq>>
       [] Head(events) = "quit" -> main' = "quit" /\ quit' = TRUE /\ UNCHANGED <<seekReq, pictq>>
  /\ UNCHANGED <<position, reader, packets, video, codecSize, size, rindex, windex, kept, shown,
                 timers, keys>>

ScheduleRefresh == timers' = timers + 1

(* video_refresh_timer; video_st is set when video_thread is created. *)
Refresh_NotWhenEmpty ==
  /\ main = "refresh"
  /\ IF video = "off" \/ size = 0 THEN main' = "wait" /\ UNCHANGED timers
                                  ELSE main' = "show" /\ ScheduleRefresh
  /\ UNCHANGED <<quit, sources, packets, video, ring, events, keys>>

Refresh ==
  /\ main = "refresh"
  /\ ScheduleRefresh
  /\ main' = IF video = "off" \/ size = 0 THEN "wait" ELSE "show"
  /\ UNCHANGED <<quit, sources, packets, video, ring, events, keys>>

Show ==
  /\ main = "show"
  /\ shown' = pictq[rindex].picture
  /\ rindex' = Following(rindex)
  /\ main' = "take"
  /\ UNCHANGED <<quit, sources, packets, video, codecSize, pictq, size, windex, kept, loop>>

(* SDL_CondSignal(is->pictq_cond): only video_thread waits on it. *)
SignalRing ==
  video' = CASE video = "room asleep" -> "room"
             [] video = "alloc asleep" -> "alloc"
             [] OTHER -> video

TakePicture ==
  /\ main = "take"
  /\ size' = size - 1
  /\ SignalRing
  /\ main' = "wait"
  /\ UNCHANGED <<quit, sources, packets, codecSize, pictq, rindex, windex, kept, shown, loop>>

MakeOverlay ==
  /\ main = "make"
  /\ \E bmp \in {"made", "none"} :
       pictq' = [pictq EXCEPT ![windex].bmp = bmp, ![windex].size = codecSize]
  /\ main' = "tell"
  /\ UNCHANGED <<quit, sources, packets, video, codecSize, size, rindex, windex, kept, shown, loop>>

TellOverlay_OnlyMade ==
  /\ main = "tell"
  /\ IF pictq[windex].bmp = "made"
     THEN pictq' = [pictq EXCEPT ![windex].allocated = TRUE] /\ SignalRing
     ELSE UNCHANGED <<pictq, video>>
  /\ main' = "wait"
  /\ UNCHANGED <<quit, sources, packets, codecSize, size, rindex, windex, kept, shown, loop>>

TellOverlay ==
  /\ main = "tell"
  /\ pictq' = [pictq EXCEPT ![windex].allocated = TRUE]
  /\ SignalRing
  /\ main' = "wait"
  /\ UNCHANGED <<quit, sources, packets, codecSize, size, rindex, windex, kept, shown, loop>>

Main == TakeEvent \/ Refresh \/ Show \/ TakePicture \/ MakeOverlay \/ TellOverlay

Next == PressKey \/ CloseWindow \/ TimerFires \/ DecodeThread \/ VideoThread \/ GetAudio \/ Main

Spec == Init /\ [][Next]_vars

(* Every thread runs; the user need not do anything. *)
FairSpec ==
  /\ Spec
  /\ WF_vars(TimerFires) /\ WF_vars(DecodeThread) /\ WF_vars(VideoThread)
  /\ WF_vars(GetAudio) /\ WF_vars(Main)

-----------------------------------------------------------------------------
(* How many events e are on their way. *)
Posted(e) == Cardinality({i \in DOMAIN events : events[i] = e})

(* The overlay video_thread writes into exists, has the size of the frame    *)
(* and is in nobody else's hands, although nothing but the order of events   *)
(* and counts keeps main off it (queue_picture fills it without the lock,    *)
(* and alloc_picture frees it without the lock).                             *)
OverlaySafe ==
  /\ video = "fill" =>
       /\ pictq[windex].bmp = "made" /\ pictq[windex].size = codecSize
       /\ main \notin {"make", "tell"} /\ Posted("alloc") = 0
       /\ ~(main = "show" /\ rindex = windex)
  /\ main = "show" => pictq[rindex].bmp = "made"

(* The pictures in the ring are the ones that were put there and not shown   *)
(* yet, oldest first: none is lost, shown twice or out of turn, although     *)
(* the two indices move outside the lock, before the count does.             *)
InRing == (IF video = "count" THEN size + 1 ELSE size) - (IF main = "take" THEN 1 ELSE 0)
PicturesInOrder ==
  /\ kept = shown + InRing
  /\ \A k \in 1 .. InRing : pictq[(rindex + k - 1) % Slots].picture = shown + k

(* The chain of timers never ends and never doubles: one timer is running,   *)
(* or its event is on its way, or main is about to start the next one.       *)
OneRefresh == timers + Posted("refresh") + (IF main = "refresh" THEN 1 ELSE 0) = 1

(* A thread asleep on a condition has a reason to, and for the overlay main  *)
(* has been told: no signal is lost between a test and the sleep, or         *)
(* because two things are signalled through one condition (pictq_cond).      *)
SleepersHaveReason ==
  /\ video = "get asleep" => videoq = << >>
  /\ audio = "get asleep" => audioq = << >>
  /\ video = "room asleep" => size >= Slots
  /\ video = "alloc asleep" =>
       /\ ~pictq[windex].allocated
       /\ Posted("alloc") = 1 \/ main \in {"make", "tell"}

(* decode_thread stops at the limits whichever queue reaches its own first,  *)
(* and overshoots by the one packet it has in its hands.                     *)
PacketsBounded == Len(videoq) <= MaxVideo + 1 /\ Len(audioq) <= MaxAudio + 1

(* What was put in the ring gets to the screen, unless the player ends first. *)
PicturesReachScreen == (kept > shown) ~> (kept = shown \/ quit)

(* SDL_MPEG.cpp:608-612, 636-639, 983-988: video_thread is not left waiting  *)
(* for room or for an overlay, nor decode_thread for room in the packet      *)
(* queues: neither consumer waits for the other one's packets.               *)
ThreadsGoOn ==
  /\ (video \in {"room", "room asleep", "alloc", "alloc asleep"}) ~>
     (video \in {"slot", "alloced", "get"} \/ quit)
  /\ Overfull ~> (~Overfull \/ quit)
=============================================================================
