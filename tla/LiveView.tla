------------------------------ MODULE LiveView ------------------------------
(***************************************************************************)
(* Live view of one device: the screen or the camera page in a browser     *)
(* (src/hub/templates.py), the hub's live handlers (src/hub/app.py) and    *)
(* the capture tasks of the agent (src/agent/agent.py and its bridges).    *)
(*                                                                         *)
(* A page dials the agent once, when it loads.  While that direct socket   *)
(* is open a live view is a stream over it; otherwise it is an <img> on    *)
(* the hub's MJPEG route, which relays a stream of the agent's hub link.   *)
(* Neither protocol has a message that cancels a stream: the agent's task  *)
(* ends when its frames do, or when a send fails.                          *)
(*                                                                         *)
(* The page keeps, besides the view, the geometry that turns a click into  *)
(* coordinates of the device, filled in by requests that return at any     *)
(* time; and posts input commands, over the direct socket first and over   *)
(* the hub when no answer came.  One command is followed (inp): commands   *)
(* have their own request ids and do not meet.                             *)
(*                                                                         *)
(* Frames are delivered in the step that sends them: a socket that has     *)
(* been closed by the page drops what arrives (readyState is not OPEN), so *)
(* delay adds nothing but frames that are dropped.                         *)
(***************************************************************************)
EXTENDS Integers

CONSTANTS
  MaxViews,     \* bound: live views started
  Monitors,     \* the displays of the device
  Primary,      \* display 1, which the page shows first
  NoView, NoMon, Photo

ASSUME LiveViewAssumption ==
  /\ MaxViews \in Nat
  /\ Primary \in Monitors
  /\ NoMon \notin Monitors
  /\ NoView \notin 1..MaxViews /\ Photo \notin (1..MaxViews) \cup {NoView}

VARIABLES
  peer,   \* the device: a desktop, or a phone with the driver
  page,   \* the open page: its socket, its view, its geometry
  task,   \* task[v]: the agent's capture task of view v
  via,    \* via[v]: the path the view was asked for on
  mon,    \* mon[v]: the display it captures
  hub,    \* hub[v]: the hub's handler of the live route
  link,   \* the agent is connected to the hub
  inp     \* the followed input command

viewVars == <<peer, page, task, via, mon, hub, link, inp>>

View == 1..MaxViews

---------------------------------------------------------------------------
(* The page.                                                               *)

\* A page that has just loaded: both pages ask for a direct socket; the
\* screen page also asks for the screen size and for the displays.
Page(kind) ==
  [kind |-> kind, ws |-> "asking", streaming |-> FALSE, rid |-> NoView,
   reg |-> {}, img |-> NoView, shown |-> NoView, dec |-> NoView,
   canvas |-> FALSE, monitor |-> Primary, size |-> NoMon, off |-> Primary,
   known |-> FALSE, sizeReq |-> IF kind = "screen" THEN 1 ELSE 0,
   monReq |-> kind = "screen", snap |-> "idle", poll |-> FALSE]

ViewInit ==
  /\ peer \in {"desktop", "phone"}
  /\ page \in {Page("screen"), Page("camera")}
  /\ task = [v \in View |-> "none"]
  /\ via = [v \in View |-> "none"]
  /\ mon = [v \in View |-> NoMon]
  /\ hub = [v \in View |-> "none"]
  /\ link = TRUE
  /\ inp = [st |-> "idle", dir |-> "none", relay |-> "none"]

\* _stopScreenAudio and the closing of the decoders.
CloseDecoders(p) == [p EXCEPT !.dec = NoView]

\* Mutant: the decoders of the ended stream stay open.
EndKeepsDecoders(p) == [p EXCEPT !.rid = NoView]

\* The end handler of a direct stream: the stage keeps its last picture and
\* the button its label, whatever the message it shows says of falling back.
EndHandler(p) == [CloseDecoders(p) EXCEPT !.rid = NoView]

\* Mutant: the stream is forgotten and its socket left open.
StopKeepsSocket(p) ==
  [CloseDecoders(p) EXCEPT
     !.streaming = FALSE, !.rid = NoView, !.img = NoView, !.shown = NoView,
     !.canvas = FALSE]

\* stopStream of the screen page: nothing tells the agent, the socket goes.
StopStream(p) ==
  [CloseDecoders(p) EXCEPT
     !.streaming = FALSE,
     !.ws = IF p.rid # NoView /\ @ = "open" THEN "closing" ELSE @,
     !.rid = NoView, !.img = NoView, !.shown = NoView, !.canvas = FALSE]

\* _directStream: a direct view needs a socket that is open.
DirectUp(p) == p.ws = "open"

\* startStream of the screen page, as view v.
StartStream(p, v) ==
  LET q == [p EXCEPT !.streaming = TRUE, !.sizeReq = @ + 1]
  IN  IF DirectUp(p) THEN [q EXCEPT !.rid = v, !.reg = @ \cup {v}]
                     ELSE [q EXCEPT !.img = v]

\* The camera page's pair: starting also ends the polling of snapshots.
CamStopStream(p) == StopStream(p)

CamStartStream(p, v) ==
  LET q == [p EXCEPT !.streaming = TRUE, !.poll = FALSE]
  IN  IF DirectUp(p) THEN [q EXCEPT !.rid = v, !.reg = @ \cup {v}]
                     ELSE [q EXCEPT !.img = v]

\* applyMonitorGeometry, once the displays are known.
ApplyMonitorGeometry(p) ==
  IF p.known THEN [p EXCEPT !.size = p.monitor, !.off = p.monitor] ELSE p

\* Mutant: the answer is taken as it is.
SizeClobbersChoice(p) == [p EXCEPT !.size = Primary]

\* loadScreenSize with an answer: the size of the primary display, unless
\* another display has been chosen.
TakeScreenSize(p) ==
  LET q == [p EXCEPT !.size = Primary]
  IN  IF p.monitor # Primary /\ p.known THEN ApplyMonitorGeometry(q) ELSE q

\* The <img>'s onerror while it shows the hub's route.
ImgError(p) == [p EXCEPT !.streaming = FALSE, !.img = NoView, !.shown = NoView]

---------------------------------------------------------------------------
(* Starting and stopping a view.                                           *)

Fresh(v) == via[v] = "none" /\ \A w \in 1..(v - 1) : via[w] # "none"

\* The request for view v leaves the page p: over its socket, or as the
\* <img>'s request to the hub.
Ask(p, v) ==
  /\ via' = [via EXCEPT ![v] = IF p.rid = v THEN "direct" ELSE "hub"]
  /\ task' = [task EXCEPT ![v] = IF p.rid = v THEN "asked" ELSE @]
  /\ hub' = [hub EXCEPT ![v] = IF p.rid = v THEN @ ELSE "ask"]
  /\ mon' = [mon EXCEPT ![v] = IF p.kind = "screen" THEN p.monitor ELSE NoMon]
  /\ page' = p

ScreenStart(v) ==
  /\ page.kind = "screen" /\ ~page.streaming /\ Fresh(v)
  /\ Ask(StartStream(page, v), v)
  /\ UNCHANGED <<peer, link, inp>>

CameraStart(v) ==
  /\ page.kind = "camera" /\ ~page.streaming /\ Fresh(v)
  /\ Ask(CamStartStream(page, v), v)
  /\ UNCHANGED <<peer, link, inp>>

ScreenStop ==
  /\ page.kind = "screen" /\ page.streaming
  /\ page' = StopStream(page)
  /\ UNCHANGED <<peer, task, via, mon, hub, link, inp>>

CameraStop ==
  /\ page.kind = "camera" /\ page.streaming
  /\ page' = CamStopStream(page)
  /\ UNCHANGED <<peer, task, via, mon, hub, link, inp>>

\* The display picker, filled once the displays are known: a running view
\* is stopped and started again on the new display.
PickMonitor(m) ==
  LET p == ApplyMonitorGeometry([page EXCEPT !.monitor = m])
  IN  /\ page.kind = "screen" /\ page.known /\ m # page.monitor
      /\ \/ /\ ~page.streaming
            /\ page' = p
            /\ UNCHANGED <<task, via, mon, hub>>
         \/ /\ page.streaming
            /\ \E v \in View : Fresh(v) /\ Ask(StartStream(StopStream(p), v), v)
      /\ UNCHANGED <<peer, link, inp>>

---------------------------------------------------------------------------
(* The direct socket.                                                      *)

\* direct_info, which the agent sends after auth_ok: it may have found no
\* address of its own that a browser could dial.
DirectInfo == IF link THEN {"dialing", "none"} ELSE {"none"}

\* GET /devices/{id}/direct: an address, if the agent is here and gave one.
AskDirect ==
  /\ page.ws = "asking"
  /\ \E w \in DirectInfo : page' = [page EXCEPT !.ws = w]
  /\ UNCHANGED <<peer, task, via, mon, hub, link, inp>>

\* The agent announces its server before it knows whether it could be started.
DirectServer == {"open", "none"}

\* The dial ends, with hello_ok or with nothing.  It is never tried again.
DirectHello ==
  /\ page.ws = "dialing"
  /\ \E w \in DirectServer : page' = [page EXCEPT !.ws = w]
  /\ UNCHANGED <<peer, task, via, mon, hub, link, inp>>

\* What the agent still does on a socket that is gone.
Cut(path) ==
  [v \in View |-> IF via[v] = path /\ task[v] \in {"asked", "live"}
                  THEN "cut" ELSE task[v]]

\* winner.onclose: the end handlers of all streams run.  The pending unary
\* calls are forgotten; their timers are not.
SocketClosed ==
  /\ page' = [(IF page.reg = {} THEN page ELSE EndHandler(page))
                EXCEPT !.ws = "none", !.reg = {}]
  /\ task' = Cut("direct")
  /\ UNCHANGED <<peer, via, mon, hub, link, inp>>

CloseCompletes == page.ws = "closing" /\ SocketClosed
DirectDrops == page.ws = "open" /\ SocketClosed

\* The browser leaves the page: its requests are aborted, its socket closed.
LeavePage ==
  /\ page.kind # "left"
  /\ page' = [Page("left") EXCEPT !.ws = "none"]
  /\ task' = Cut("direct")
  /\ inp' = [inp EXCEPT !.st = IF @ \in {"direct", "hub"} THEN "left" ELSE @]
  /\ UNCHANGED <<peer, via, mon, hub, link>>

---------------------------------------------------------------------------
(* The hub's live handlers.                                                *)

\* What the page sees when the request of view v fails before its headers.
Failed(v) == IF page.img = v THEN ImgError(page) ELSE page

\* The request is sent to the agent; 503 without it.
Live(v) ==
  /\ hub[v] = "ask"
  /\ hub' = [hub EXCEPT ![v] = IF link THEN "start" ELSE "over"]
  /\ task' = [task EXCEPT ![v] = IF link THEN "asked" ELSE @]
  /\ page' = IF link THEN page ELSE Failed(v)
  /\ UNCHANGED <<peer, via, mon, link, inp>>

ScreenLive(v) == mon[v] # NoMon /\ Live(v)
CameraLive(v) == mon[v] = NoMon /\ Live(v)

\* No stream_start in ten seconds: 504, and the agent is not told.
LiveTimeout(v) ==
  /\ hub[v] = "start"
  /\ hub' = [hub EXCEPT ![v] = "over"]
  /\ page' = Failed(v)
  /\ UNCHANGED <<peer, task, via, mon, link, inp>>

\* The browser has dropped the response: the hub forgets the request, and
\* the agent is not told either.
LiveAbandoned(v) ==
  /\ hub[v] = "relay" /\ page.img # v
  /\ hub' = [hub EXCEPT ![v] = "over"]
  /\ UNCHANGED <<peer, page, task, via, mon, link, inp>>

---------------------------------------------------------------------------
(* The agent's capture tasks.  A message on a direct socket is handled by  *)
(* the page if its socket is open; one on the hub link by the handler.     *)

Heard(v) == via[v] = "direct" /\ page.ws = "open" /\ v \in page.reg

\* The agent sends pictures; the driver's own server can send H.264, which
\* the browser may not be able to decode.
Codecs == IF peer = "phone" THEN {"mjpeg", "h264", "unsupported"} ELSE {"mjpeg"}

OpenDecoders(p, v) == [p EXCEPT !.dec = v]

\* The page's start handler: an <img>, or a <canvas> with its decoders, or a
\* <canvas> whose decoder could not be configured.
StartHandler(p, v, codec) ==
  CASE codec = "mjpeg" -> p
    [] codec = "h264" -> OpenDecoders([p EXCEPT !.canvas = TRUE], v)
    [] codec = "unsupported" -> [p EXCEPT !.canvas = TRUE]

\* The camera page's pair of handlers, without sound.
CamStartHandler(p, v, codec) == StartHandler(p, v, codec)
CamEndHandler(p) == EndHandler(p)

\* The source of frames opens (a desktop has no camera source), and stream_start goes out.
TaskOpens(v) ==
  /\ task[v] = "asked" /\ (mon[v] = NoMon => peer = "phone")
  /\ task' = [task EXCEPT ![v] = "live"]
  /\ hub' = [hub EXCEPT ![v] = IF @ = "start" THEN "relay" ELSE @]
  /\ IF Heard(v)
       THEN \E codec \in Codecs :
              page' = IF mon[v] = NoMon THEN CamStartHandler(page, v, codec)
                                        ELSE StartHandler(page, v, codec)
       ELSE page' = page
  /\ UNCHANGED <<peer, via, mon, link, inp>>

Ended(v) ==
  LET p == IF mon[v] = NoMon THEN CamEndHandler(page) ELSE EndHandler(page)
  IN  IF Heard(v) THEN [p EXCEPT !.reg = @ \ {v}] ELSE page

\* The op answers with an error instead.
TaskRefuses(v) ==
  /\ task[v] = "asked"
  /\ task' = [task EXCEPT ![v] = "gone"]
  /\ hub' = [hub EXCEPT ![v] = IF @ = "start" THEN "over" ELSE @]
  /\ page' = IF hub[v] = "start" THEN Failed(v) ELSE Ended(v)
  /\ UNCHANGED <<peer, via, mon, link, inp>>

\* No driver, sharing not armed, or no capture library.
ScreenRefuses(v) == mon[v] # NoMon /\ TaskRefuses(v)

\* No driver, or a desktop.
CameraRefuses(v) == mon[v] = NoMon /\ TaskRefuses(v)

\* A frame: painted if someone still shows this view.
Frame(v) ==
  /\ task[v] = "live"
  /\ \/ Heard(v) /\ (page.canvas <=> page.dec = v)
     \/ hub[v] = "relay" /\ page.img = v
  /\ page' = [page EXCEPT !.shown = v]
  /\ UNCHANGED <<peer, task, via, mon, hub, link, inp>>

ScreenFrame(v) == mon[v] # NoMon /\ Frame(v)
CameraFrame(v) == mon[v] = NoMon /\ Frame(v)

\* The source runs dry (the driver closes its socket, or stays silent).
TaskEnds(v) ==
  /\ task[v] = "live"
  /\ task' = [task EXCEPT ![v] = "gone"]
  /\ hub' = [hub EXCEPT ![v] = IF @ = "relay" THEN "over" ELSE @]
  /\ page' = Ended(v)
  /\ UNCHANGED <<peer, via, mon, link, inp>>

\* The next send on a dead socket raises and ends the task.  Its finally closes
\* the source of frames, but stream_start is sent before the try: a source that
\* was opened for it is left to the garbage collector.
TaskDies(v) ==
  /\ task[v] = "cut"
  /\ task' = [task EXCEPT ![v] = "gone"]
  /\ UNCHANGED <<peer, page, via, mon, hub, link, inp>>

---------------------------------------------------------------------------
(* The agent's hub link.                                                   *)

\* cancel_all fails what waits for the agent: 502 before the headers, the
\* end of the response after them.
LinkDown ==
  /\ link /\ link' = FALSE
  /\ task' = Cut("hub")
  /\ hub' = [v \in View |-> IF hub[v] \in {"start", "relay"} THEN "over"
                            ELSE hub[v]]
  /\ page' = IF \E v \in View : page.img = v /\ hub[v] = "start"
             THEN ImgError(page) ELSE page
  /\ inp' = [inp EXCEPT !.st = IF @ = "hub" THEN "error" ELSE @,
                        !.relay = IF @ = "sent" THEN "none" ELSE @]
  /\ UNCHANGED <<peer, via, mon>>

LinkUp ==
  /\ ~link /\ link' = TRUE
  /\ UNCHANGED <<peer, page, task, via, mon, hub, inp>>

---------------------------------------------------------------------------
(* Geometry.                                                               *)

\* Mutant: one answer is taken for two.
ScreenSizeCountsTwice ==
  /\ page.sizeReq > 0
  /\ page' = [page EXCEPT !.sizeReq = @ - 2]
  /\ UNCHANGED <<peer, task, via, mon, hub, link, inp>>

\* The answer of GET /api/devices/{id}/screen-size, or none.
ScreenSizeReply ==
  /\ page.sizeReq > 0
  /\ LET p == [page EXCEPT !.sizeReq = @ - 1]
     IN  \/ link /\ page' = TakeScreenSize(p)
         \/ page' = p
  /\ UNCHANGED <<peer, task, via, mon, hub, link, inp>>

\* A query reaches the agent over the direct socket, or else over the hub.
QueryInput == DirectUp(page) \/ link

\* A desktop lists its displays, if it has the capture library.
ListMonitors == peer = "desktop"

\* loadMonitors; a phone has no such command.
LoadMonitors ==
  /\ page.monReq
  /\ LET p == [page EXCEPT !.monReq = FALSE]
     IN  \/ /\ QueryInput /\ ListMonitors
            /\ page' = ApplyMonitorGeometry([p EXCEPT !.known = TRUE])
         \/ page' = p
  /\ UNCHANGED <<peer, task, via, mon, hub, link, inp>>

---------------------------------------------------------------------------
(* Input.                                                                  *)

\* POST /devices/{id}/input: 503 without the agent.
HubPost(i) ==
  IF link THEN [i EXCEPT !.st = "hub", !.relay = "sent"]
          ELSE [i EXCEPT !.st = "error"]

\* postInput: the direct socket first.
PostInput(i) ==
  IF DirectUp(page) THEN [i EXCEPT !.st = "direct", !.dir = "sent"]
                    ELSE HubPost(i)

\* A gesture on the stage, or a navigation button.
Gesture ==
  /\ page.kind = "screen" /\ inp.st = "idle"
  /\ inp' = PostInput(inp)
  /\ UNCHANGED <<peer, page, task, via, mon, hub, link>>

\* A key, for a device that the page knows to be a desktop.
KeyDown == peer = "desktop" /\ page.size # NoMon /\ Gesture

\* What running a command gives, on a desktop or by the driver.
Verdict == {"ok", "error"}

\* The agent runs the command that came over the direct socket and answers.
DirectInput ==
  /\ inp.dir = "sent"
  /\ \E verdict \in Verdict :
       inp' = [inp EXCEPT
                 !.dir = "done",
                 !.st = IF @ = "direct" /\ page.ws = "open" THEN verdict ELSE @]
  /\ UNCHANGED <<peer, page, task, via, mon, hub, link>>

\* Mutant: the timers go with the socket.
TimerDiesWithSocket ==
  /\ inp.st = "direct" /\ page.ws # "none"
  /\ inp' = HubPost(inp)
  /\ UNCHANGED <<peer, page, task, via, mon, hub, link>>

\* No answer in time: the hub is asked, though the agent may have run it.
DirectInputTimeout ==
  /\ inp.st = "direct"
  /\ inp' = HubPost(inp)
  /\ UNCHANGED <<peer, page, task, via, mon, hub, link>>

\* The agent runs the command that the hub relayed.
HubInput ==
  /\ inp.relay = "sent" /\ link
  /\ \E verdict \in Verdict :
       inp' = [inp EXCEPT !.relay = "done",
                          !.st = IF @ = "hub" THEN verdict ELSE @]
  /\ UNCHANGED <<peer, page, task, via, mon, hub, link>>

\* device_input gives up after eight seconds: 504.
HubInputTimeout ==
  /\ inp.st = "hub"
  /\ inp' = [inp EXCEPT !.st = "error"]
  /\ UNCHANGED <<peer, page, task, via, mon, hub, link>>

---------------------------------------------------------------------------
(* Snapshots of the camera page.                                           *)

\* capture(): one at a time, by the button or by the polling timer.
Capture ==
  /\ page.kind = "camera" /\ page.snap = "idle"
  /\ page' = [page EXCEPT !.snap = "asked"]
  /\ UNCHANGED <<peer, task, via, mon, hub, link, inp>>

\* The polling checkbox: turning it on captures at once.
Poll ==
  /\ page.kind = "camera"
  /\ page' = [page EXCEPT
                !.poll = ~@,
                !.snap = IF ~page.poll /\ @ = "idle" THEN "asked" ELSE @]
  /\ UNCHANGED <<peer, task, via, mon, hub, link, inp>>

\* device_camera_capture: 503 without the agent.
CameraCapture ==
  /\ page.snap = "asked"
  /\ page' = [page EXCEPT !.snap = IF link THEN "taking" ELSE "failed"]
  /\ UNCHANGED <<peer, task, via, mon, hub, link, inp>>

\* op_camera_capture: Termux takes the photo, or the hub's 25 seconds pass.
TakePhoto ==
  /\ page.snap = "taking"
  /\ \E s \in {"photo", "failed"} :
       /\ s = "photo" => link /\ peer = "phone"
       /\ page' = [page EXCEPT !.snap = s]
  /\ UNCHANGED <<peer, task, via, mon, hub, link, inp>>

\* showImage: the photo replaces what the <img> shows, a live view that the
\* hub relays included.
ShowImage(p) == [p EXCEPT !.img = NoView, !.shown = Photo]

\* The answer; a failure ends the polling.
CaptureReply ==
  /\ \/ /\ page.snap = "photo"
        /\ page' = [ShowImage(page) EXCEPT !.snap = "idle"]
     \/ /\ page.snap = "failed"
        /\ page' = [page EXCEPT !.snap = "idle", !.poll = FALSE]
  /\ UNCHANGED <<peer, task, via, mon, hub, link, inp>>

---------------------------------------------------------------------------
ViewNext ==
  \/ \E v \in View :
       \/ ScreenStart(v) \/ CameraStart(v) \/ ScreenLive(v) \/ CameraLive(v)
       \/ LiveTimeout(v) \/ LiveAbandoned(v) \/ TaskOpens(v)
       \/ ScreenRefuses(v) \/ CameraRefuses(v)
       \/ ScreenFrame(v) \/ CameraFrame(v) \/ TaskEnds(v) \/ TaskDies(v)
  \/ \E m \in Monitors : PickMonitor(m)
  \/ ScreenStop \/ CameraStop \/ AskDirect \/ DirectHello
  \/ CloseCompletes \/ DirectDrops \/ LeavePage \/ LinkDown \/ LinkUp
  \/ ScreenSizeReply \/ LoadMonitors
  \/ Gesture \/ KeyDown \/ DirectInput \/ DirectInputTimeout \/ HubInput
  \/ HubInputTimeout
  \/ Capture \/ Poll \/ CameraCapture \/ TakePhoto \/ CaptureReply

ViewSpec == ViewInit /\ [][ViewNext]_viewVars

\* A close completes or the browser gives up on it; a capture that runs sends
\* its next frame; the timers of an input command fire.
FairViewSpec ==
  /\ ViewSpec
  /\ WF_viewVars(CloseCompletes)
  /\ \A v \in View : WF_viewVars(TaskDies(v))
  /\ WF_viewVars(DirectInputTimeout)
  /\ WF_viewVars(HubInputTimeout)

---------------------------------------------------------------------------
(* Properties.                                                             *)

Pages ==
  [kind : {"screen", "camera", "left"},
   ws : {"asking", "dialing", "open", "closing", "none"},
   streaming : BOOLEAN, rid : View \cup {NoView}, reg : SUBSET View,
   img : View \cup {NoView}, shown : View \cup {NoView, Photo},
   dec : View \cup {NoView}, canvas : BOOLEAN, monitor : Monitors,
   size : Monitors \cup {NoMon}, off : Monitors, known : BOOLEAN,
   sizeReq : 0..(MaxViews + 1), monReq : BOOLEAN,
   snap : {"idle", "asked", "taking", "photo", "failed"}, poll : BOOLEAN]

\* Every piece of state stays within its type.
ViewTypeOK ==
  /\ peer \in {"desktop", "phone"}
  /\ page \in Pages
  /\ task \in [View -> {"none", "asked", "live", "cut", "gone"}]
  /\ via \in [View -> {"none", "direct", "hub"}]
  /\ mon \in [View -> Monitors \cup {NoMon}]
  /\ hub \in [View -> {"none", "ask", "start", "relay", "over"}]
  /\ link \in BOOLEAN
  /\ inp \in [st : {"idle", "direct", "hub", "ok", "error", "left"},
              dir : {"none", "sent", "done"}, relay : {"none", "sent", "done"}]

\* toPhoneCoords: a fraction of the stage is multiplied by a size and moved by
\* an origin.  The size is that of a display once one is known; until then it
\* is the picture's (frames are scaled down, to less than the display), or, on
\* a <canvas>, which has none, 1080x2400.
ToPhoneCoords(p) ==
  [scale |-> IF p.size # NoMon THEN p.size ELSE IF p.canvas THEN "1080x2400" ELSE "frame",
   origin |-> p.off]

\* A click goes to the display on the stage: it is moved by the origin of that
\* display, and once the page knows a size it is scaled by the size of that
\* display, whatever the order in which the size, the list of displays and the
\* picker's changes reached the page (loadScreenSize, loadMonitors and
\* wireSecondScreen against the frame handlers).  Until then it misses by the
\* ratio of picture and display.
ClicksHitTheShownDisplay ==
  page.kind = "screen" /\ page.shown \in View =>
    LET click == ToPhoneCoords(page)
    IN  /\ click.origin = mon[page.shown]
        /\ page.size # NoMon => click.scale = mon[page.shown]

\* Decoders are open for the direct view the page is showing and for no
\* other, through ends, closes and restarts that overlap (the end handlers
\* and stopStream both close them; the start handler opens them).
DecodersAreCurrent == page.dec \in {NoView, page.rid}

Abandoned(v) == via[v] = "direct" /\ task[v] \in {"asked", "live", "cut"}
                  /\ page.rid # v

\* A capture that was asked for over a direct socket and is no longer shown
\* ends: stopping closes the socket, and that ends the task.  (A capture the
\* hub relays has no such end: it may run until the agent's link drops.)
DirectStopReleases == \A v \in View : Abandoned(v) ~> task[v] = "gone"

\* Every input command is answered for, with a result or an error, though
\* the socket may close under it and take its pending entry (postInput).
InputSettles == inp.st \in {"direct", "hub"} ~> inp.st \in {"ok", "error", "left"}
=============================================================================
