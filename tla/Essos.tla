-------------------------------- MODULE Essos --------------------------------
(* The application helper of westeros (essos/essos.cpp): a context that runs an
   application as a client of a compositor (wayland) or directly on the display,
   with the devices in /dev/input.  One application thread makes every call and
   runs the event loop, which calls the listeners; a listener may stop the
   context.  EssContextStart holds the context's mutex while it runs the event
   loop for the first time, EssContextRunEventLoopOnce does not.

   Outside are the compositor, the devices that come and go, and inotify, which
   tells of a device's event node, the one Essos opens, and of other nodes the
   device may have.  What follows a use of freed memory or a wrong use of the mutex
   is not modelled: crashed then says what it was.                              *)
EXTENDS Integers, SequencesExt

CONSTANTS Devices,       \* the input devices
          MaxNews,       \* notifications are modelled while fewer than these wait
          MaxWindows     \* native windows are made while there are fewer

ASSUME EssosAssumption ==
    /\ IsFiniteSet(Devices) /\ "watch" \notin Devices
    /\ MaxNews \in Nat /\ MaxWindows \in Nat

VARIABLES
    created,            \* there is a context
    isWayland, isInitialized, isRunning,
    wldisplay,          \* "none", "partial" or "up"
    glCtx,              \* glCtx # 0
    egl,                \* eglDisplay, the EGL context and its surface are there
    windows,            \* native windows that exist
    mutex,              \* "free", or "start" while EssContextStart has it
    keyListener,        \* the application listens to input
    keyboards,          \* wl_keyboard objects made and listened to
    xkbState, modMask,  \* xkbState # 0; whether a modifier is active
    fds,                \* inputDeviceFds, each with what poll says: "in", "no" or "unset"
    notify,             \* notifyFd is a watch that is open
    opened,             \* the descriptors that are open
    plugged,            \* devices that have a node
    news,               \* notifications that have not been read
    excused,            \* a device was not opened, or a notification of it passed over
    input,              \* devices that have an event to read
    loop,               \* where the event loop is, at which entry of how many
    crashed

setupVars == <<created, isWayland, isInitialized, isRunning, wldisplay, glCtx, egl, windows, mutex>>
clientVars == <<keyListener, keyboards, xkbState, modMask>>
deviceVars == <<fds, notify, opened, plugged, news, excused, input>>
essVars == <<setupVars, clientVars, deviceVars, loop, crashed>>

NoLoop == [pc |-> "idle", i |-> 0, n |-> 0]
AppCalls == created /\ loop.pc = "idle" /\ crashed = "no"
LoopAt(pc) == loop.pc = pc /\ crashed = "no"
Listed == {fds[i].fd : i \in DOMAIN fds}
Entry(fd, revents) == [fd |-> fd, revents |-> revents]
Crash(why) == crashed' = why

EssInit ==
    /\ created = FALSE /\ isWayland = FALSE /\ isInitialized = FALSE /\ isRunning = FALSE
    /\ wldisplay = "none" /\ glCtx = FALSE /\ egl = FALSE /\ windows = 0 /\ mutex = "free"
    /\ keyListener = FALSE /\ keyboards = 0 /\ xkbState = FALSE /\ modMask = FALSE
    /\ fds = <<>> /\ notify = FALSE /\ opened = {} /\ plugged = {} /\ news = <<>> /\ excused = FALSE /\ input = {}
    /\ loop = NoLoop /\ crashed = "no"

-----------------------------------------------------------------------------
Create ==
    /\ ~created /\ crashed = "no"
    /\ created' = TRUE
    /\ UNCHANGED <<isWayland, isInitialized, isRunning, wldisplay, glCtx, egl, windows, mutex,
                   clientVars, deviceVars, loop, crashed>>

SetUseWayland(use) ==
    /\ AppCalls /\ ~isInitialized
    /\ isWayland' = use
    /\ UNCHANGED <<created, isInitialized, isRunning, wldisplay, glCtx, egl, windows, mutex,
                   clientVars, deviceVars, loop, crashed>>

SetKeyListener ==
    /\ AppCalls
    /\ keyListener' = TRUE
    /\ UNCHANGED <<setupVars, keyboards, xkbState, modMask, deviceVars, loop, crashed>>

(* The platform that isWayland names: a connection and its registry, or the
   context of westeros-gl.                                                      *)
PlatformInit ==
    /\ isInitialized' = TRUE
    /\ wldisplay' = IF isWayland THEN "up" ELSE wldisplay
    /\ glCtx' = (glCtx \/ ~isWayland)

(* essPlatformInitWayland may fail with the connection made.                   *)
PlatformInitFails ==
    /\ isInitialized' = FALSE /\ UNCHANGED glCtx
    /\ wldisplay' \in {wldisplay} \cup (IF isWayland THEN {"partial"} ELSE {})

(* An initialized context refuses to be initialized again, in
   EssContextSetUseWayland.  A start that fails in EGL has this effect too.     *)
InitContext ==
    /\ AppCalls /\ ~isRunning /\ ~isInitialized
    /\ PlatformInit \/ PlatformInitFails
    /\ UNCHANGED <<created, isWayland, isRunning, egl, windows, mutex, clientVars, deviceVars, loop, crashed>>

(* essCreateNativeWindow does not look for an earlier window.  When it fails it
   unlocks the mutex, which its callers then do again.                          *)
CreateNativeWindow ==
    /\ AppCalls /\ isInitialized /\ windows < MaxWindows
    /\ \/ (IF isWayland THEN wldisplay = "up" ELSE glCtx) /\ windows' = windows + 1 /\ UNCHANGED crashed
       \/ Crash("mutex unlocked twice") /\ UNCHANGED windows
       \/ isWayland /\ wldisplay = "none" /\ Crash("no compositor to make a surface of") /\ UNCHANGED windows
    /\ UNCHANGED <<created, isWayland, isInitialized, isRunning, wldisplay, glCtx, egl, mutex, clientVars, deviceVars, loop>>

-----------------------------------------------------------------------------
(* essGetInputDevices opens the nodes in the order the directory has them, the
   ones it may open; their entries are added with revents as the stack had it.  *)
OpenDevices(found, rest) ==
    /\ \E order \in SetToSeqs(found) : fds' = [i \in DOMAIN order |-> Entry(order[i], "unset")] \o rest
    /\ excused' = (excused \/ found # plugged)

(* essInitInput: the watch is made after the devices were looked for, so one that
   comes between counts as not opened.                                          *)
InitInput ==
    /\ notify' \in BOOLEAN
    /\ LET watch == IF notify' THEN {"watch"} ELSE {} IN
       \E found \in SUBSET plugged :
          /\ OpenDevices(found, SetToSeq({Entry(w, "unset") : w \in watch}))
          /\ opened' = opened \cup found \cup watch
    /\ news' = <<>> /\ input' = {}
    /\ UNCHANGED plugged

(* After EssContextStop isInitialized is still set, but the platform is gone: a
   second start uses the display it was told before, or has no context.         *)
Initialised == IF isInitialized THEN UNCHANGED <<isInitialized, wldisplay, glCtx>> ELSE PlatformInit

StartRuns ==
    /\ AppCalls /\ ~isRunning /\ windows < MaxWindows
    /\ Initialised
    /\ IF isWayland THEN wldisplay' = "up" ELSE glCtx'
    /\ windows' = windows + 1 /\ egl' = TRUE /\ isRunning' = TRUE /\ mutex' = "start"
    /\ IF isWayland THEN UNCHANGED deviceVars ELSE InitInput
    /\ loop' = [NoLoop EXCEPT !.pc = IF isWayland THEN "dispatch" ELSE "poll"]
    /\ UNCHANGED <<created, isWayland, clientVars, crashed>>

StartCrashes ==
    /\ AppCalls /\ ~isRunning
    /\ Initialised
    /\ Crash(IF isWayland /\ wldisplay' # "up" THEN "a display that is gone" ELSE "mutex unlocked twice")
    /\ UNCHANGED <<created, isWayland, isRunning, egl, windows, mutex, clientVars, deviceVars, loop>>

-----------------------------------------------------------------------------
(* EssContextStop calls essMonitorInputDevicesLifecycleBegin, where its name tells
   of an End: a second watch is made and then closed with all that is listed.   *)
StopRelease ==
    /\ fds' = <<>> /\ opened' = opened \ Listed /\ input' = {}
    /\ notify' = FALSE
    /\ UNCHANGED <<plugged, news, excused>>

(* essPlatformTerm takes down the platform that isWayland names now.            *)
PlatformTerm ==
    IF isWayland
    THEN /\ wldisplay' = "none" /\ UNCHANGED glCtx
         /\ windows' = IF wldisplay # "none" /\ windows > 0 THEN windows - 1 ELSE windows
    ELSE glCtx' = FALSE /\ UNCHANGED <<wldisplay, windows>>

StopEffect ==
    /\ IF isRunning /\ ~isWayland THEN StopRelease ELSE UNCHANGED deviceVars
    /\ isRunning' = FALSE /\ egl' = (egl /\ ~isRunning)
    /\ IF isInitialized THEN PlatformTerm ELSE UNCHANGED <<wldisplay, glCtx, windows>>
    /\ UNCHANGED <<created, isWayland, isInitialized, mutex, clientVars>>

Stop == AppCalls /\ StopEffect /\ UNCHANGED <<loop, crashed>>

(* EssContextDestroy: the next context begins anew.                            *)
Destroy ==
    /\ AppCalls
    /\ IF isRunning /\ ~isWayland THEN StopRelease ELSE UNCHANGED deviceVars
    /\ IF isWayland THEN wldisplay' = "none" /\ UNCHANGED glCtx ELSE glCtx' = FALSE /\ UNCHANGED wldisplay
    /\ created' = FALSE /\ isInitialized' = FALSE /\ isRunning' = FALSE /\ egl' = (egl /\ ~isRunning) /\ isWayland' = FALSE
    /\ windows' = 0
    /\ keyListener' = FALSE /\ keyboards' = 0 /\ xkbState' = FALSE /\ modMask' = FALSE
    /\ UNCHANGED <<mutex, loop, crashed>>

-----------------------------------------------------------------------------
(* EssContextRunEventLoopOnce, which an application may call that has a context
   for its windows only and has not started it.                                *)
RunEventLoopOnce ==
    /\ AppCalls /\ isInitialized /\ (isWayland => wldisplay = "up")
    /\ loop' = [NoLoop EXCEPT !.pc = IF isWayland THEN "dispatch" ELSE "poll"]
    /\ UNCHANGED <<setupVars, clientVars, deviceVars, crashed>>

LoopEnds ==
    /\ \/ LoopAt("dispatch") \/ LoopAt("terminated")
       \/ LoopAt("scan") /\ loop.i > loop.n
    /\ loop' = NoLoop /\ mutex' = "free"
    /\ UNCHANGED <<created, isWayland, isInitialized, isRunning, wldisplay, glCtx, egl, windows,
                   clientVars, deviceVars, crashed>>

(* essProcessInputDevices polls all entries once and then goes through them.    *)
Readable(fd) == IF fd = "watch" THEN news # <<>> ELSE fd \in input /\ fd \in plugged

Poll ==
    /\ LoopAt("poll")
    /\ fds' = [i \in DOMAIN fds |-> Entry(fds[i].fd, IF Readable(fds[i].fd) THEN "in" ELSE "no")]
    /\ loop' = [pc |-> "scan", i |-> 1, n |-> Len(fds)]
    /\ UNCHANGED <<setupVars, clientVars, notify, opened, plugged, news, excused, input, crashed>>

Scanning(revents) == LoopAt("scan") /\ loop.i <= loop.n /\ loop.i <= Len(fds) /\ fds[loop.i].revents = revents
NextEntry == [loop EXCEPT !.pc = "scan", !.i = @ + 1]

Skip ==
    /\ Scanning("no")
    /\ loop' = NextEntry
    /\ UNCHANGED <<setupVars, clientVars, deviceVars, crashed>>

LookAtUnset ==
    /\ Scanning("unset")
    /\ \E revents \in {"in", "no"} : fds' = [fds EXCEPT ![loop.i].revents = revents]
    /\ UNCHANGED <<setupVars, clientVars, notify, opened, plugged, news, excused, input, loop, crashed>>

(* Both reads wait when there is nothing to read.  One read takes all of the
   notifications, of which the first is looked at.                              *)
HotplugReopensKnown ==
    /\ \E order \in SetToSeqs(plugged \cap Listed) : fds' = [i \in DOMAIN order |-> Entry(order[i], "unset")] \o <<Last(fds)>>
    /\ opened' = (plugged \cap Listed) \cup {"watch"} /\ UNCHANGED excused

(* The entries but the last are closed and opened again; the last, which is the
   watch, is put aside and back.                                               *)
Hotplug ==
    \E found \in SUBSET plugged :
       /\ OpenDevices(found, <<Last(fds)>>)
       /\ opened' = (opened \ {fds[i].fd : i \in 1..Len(fds)-1}) \cup found

ReadNews ==
    /\ Scanning("in") /\ fds[loop.i].fd = "watch" /\ news # <<>>
    /\ news' = <<>>
    /\ IF Head(news) = "event"
       THEN Hotplug /\ input' = {}
       ELSE excused' = (excused \/ "event" \in ToSet(news)) /\ UNCHANGED <<fds, opened, input>>
    /\ loop' = [NextEntry EXCEPT !.n = Len(fds')]
    /\ UNCHANGED <<setupVars, clientVars, notify, plugged, crashed>>

ReadDevice ==
    /\ Scanning("in") /\ fds[loop.i].fd # "watch"
    /\ LET d == fds[loop.i].fd IN
       /\ d \in plugged => d \in input
       /\ input' = input \ {d}
       /\ loop' = IF d \in plugged /\ keyListener THEN [loop EXCEPT !.pc = "listener"] ELSE NextEntry
    /\ UNCHANGED <<setupVars, clientVars, fds, notify, opened, plugged, news, excused, crashed>>

Overrun ==
    /\ LoopAt("scan") /\ loop.i <= loop.n /\ loop.i > Len(fds)
    /\ Crash("past the end of inputDeviceFds")
    /\ UNCHANGED <<setupVars, clientVars, deviceVars, loop>>

(* A listener returns, or stops the context first.                             *)
ListenerReturns ==
    /\ LoopAt("listener") \/ LoopAt("wlListener")
    /\ loop' = IF loop.pc = "listener" THEN NextEntry ELSE [loop EXCEPT !.pc = "dispatch"]
    /\ UNCHANGED <<setupVars, clientVars, deviceVars, crashed>>

ListenerStops ==
    /\ LoopAt("listener") \/ LoopAt("wlListener") \/ LoopAt("terminated")
    /\ IF mutex = "start" THEN Crash("mutex locked twice") /\ UNCHANGED <<setupVars, clientVars, deviceVars, loop>>
       ELSE IF loop.pc = "wlListener" THEN Crash("display freed in dispatch") /\ UNCHANGED <<setupVars, clientVars, deviceVars, loop>>
       ELSE /\ StopEffect
            /\ loop' = IF loop.pc = "listener" THEN NextEntry ELSE NoLoop
            /\ UNCHANGED crashed

-----------------------------------------------------------------------------
(* What the compositor sends, dispatched by essProcessRunWaylandEventLoopOnce.  *)
CallListener == loop' = IF keyListener THEN [loop EXCEPT !.pc = "wlListener"] ELSE loop

(* Each time the seat tells of a keyboard another one is made.                 *)
SeatCapabilities ==
    /\ LoopAt("dispatch") /\ keyboards < 2
    /\ keyboards' = keyboards + 1
    /\ UNCHANGED <<setupVars, keyListener, xkbState, modMask, deviceVars, loop, crashed>>

KeyboardKeymap(compiles) ==
    /\ LoopAt("dispatch") /\ keyboards > 0
    /\ IF compiles THEN xkbState' = TRUE /\ UNCHANGED crashed
       ELSE Crash("a state of no keymap") /\ UNCHANGED xkbState
    /\ UNCHANGED <<setupVars, keyListener, keyboards, modMask, deviceVars, loop>>

KeyboardKey ==
    /\ LoopAt("dispatch") /\ keyboards > 0
    /\ CallListener
    /\ UNCHANGED <<setupVars, clientVars, deviceVars, crashed>>

KeyboardModifiers(active) ==
    /\ LoopAt("dispatch") /\ keyboards > 0
    /\ modMask' = IF xkbState THEN active ELSE modMask
    /\ IF modMask' # modMask THEN CallListener ELSE UNCHANGED loop
    /\ UNCHANGED <<setupVars, keyListener, keyboards, xkbState, deviceVars, crashed>>

(* A new mode resizes the window, if there is one or not.                      *)
OutputMode ==
    /\ LoopAt("dispatch") /\ windows = 0
    /\ Crash("no window to resize")
    /\ UNCHANGED <<setupVars, clientVars, deviceVars, loop>>

ConnectionLost ==
    /\ LoopAt("dispatch")
    /\ loop' = [loop EXCEPT !.pc = "terminated"]
    /\ UNCHANGED <<setupVars, clientVars, deviceVars, crashed>>

-----------------------------------------------------------------------------
(* The devices.                                                                *)
Tell(nodes) == news' = IF notify THEN news \o nodes ELSE news

Plug(d, nodes) ==
    /\ crashed = "no" /\ d \notin plugged /\ Len(news) < MaxNews
    /\ plugged' = plugged \cup {d}
    /\ Tell(nodes)
    /\ UNCHANGED <<setupVars, clientVars, fds, notify, opened, excused, input, loop, crashed>>

Unplug(d, nodes) ==
    /\ crashed = "no" /\ d \in plugged /\ Len(news) < MaxNews
    /\ plugged' = plugged \ {d}
    /\ Tell(nodes)
    /\ UNCHANGED <<setupVars, clientVars, fds, notify, opened, excused, input, loop, crashed>>

Press(d) ==
    /\ crashed = "no" /\ d \in plugged \cap opened
    /\ input' = input \cup {d}
    /\ UNCHANGED <<setupVars, clientVars, fds, notify, opened, plugged, news, excused, loop, crashed>>

Nodes == {<<"event">>, <<"other", "event">>, <<"event", "other">>}

EssNext ==
    \/ Create \/ SetKeyListener \/ InitContext \/ CreateNativeWindow
    \/ \E use \in BOOLEAN : SetUseWayland(use)
    \/ StartRuns \/ StartCrashes \/ Stop \/ Destroy \/ RunEventLoopOnce
    \/ LoopEnds \/ Poll \/ Skip \/ LookAtUnset \/ ReadNews \/ ReadDevice \/ Overrun
    \/ ListenerReturns \/ ListenerStops
    \/ SeatCapabilities \/ KeyboardKey \/ ConnectionLost \/ OutputMode
    \/ \E b \in BOOLEAN : KeyboardKeymap(b) \/ KeyboardModifiers(b)
    \/ \E d \in Devices, nodes \in Nodes : Plug(d, nodes) \/ Unplug(d, nodes)
    \/ \E d \in Devices : Press(d)

EssSpec == EssInit /\ [][EssNext]_essVars

-----------------------------------------------------------------------------
(* The event loop closes and opens the devices by their place in inputDeviceFds,
   and Stop closes what is listed: no descriptor is open and forgotten, or listed
   and closed, and the watch keeps its place at the end, where a hotplug looks for
   it; also after a Stop from a listener, and after the second watch Stop makes. *)
DescriptorsListed ==
    /\ opened = Listed /\ IsInjective([i \in DOMAIN fds |-> fds[i].fd])
    /\ notify => Last(fds).fd = "watch"

(* A device that is there and not opened is noticed: a notification of it waits.
   Excused are devices that could not be opened and notifications that were read
   behind one of another node, of which only the first is looked at.            *)
NoDeviceMissed == notify /\ ~(plugged \subseteq Listed) => excused \/ "event" \in ToSet(news)

(* What is listed is open, what is open is listed, and what is neither is announced. *)
DevicesFollowed == DescriptorsListed /\ NoDeviceMissed

(* Not so, against the comment in essos.h, "This API will not block if no events
   are pending": the entry of the watch is met twice when a device has come, and
   the entries of devices just opened say whatever poll has not set.            *)
LoopDoesNotBlock == Scanning("in") /\ fds[loop.i].fd = "watch" => news # <<>>
=============================================================================
