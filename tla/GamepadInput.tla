---------------------------- MODULE GamepadInput ----------------------------
(***************************************************************************)
(* A gamepad's buttons on their way to the game: evdev and udev,           *)
(* LinuxJoystickManager, GamepadManager, LinuxGamepadJoystickManager, the  *)
(* window's callbacks, FakeInputQueue and FakeLooper.                      *)
(*                                                                         *)
(* All of it runs on the game's thread, inside ALooper_pollAll; devices    *)
(* are plugged, unplugged and used at any time in between.  A button goes  *)
(* to the game as a key event; a direction of the D-pad as a motion event  *)
(* that only says which gamepad to look at.  The device is one whose       *)
(* mapping takes its one hat to the D-pad and its buttons to buttons with  *)
(* a key code.  Left out: the sticks, which go the way of the D-pad        *)
(* without the test whether anything changed, directions that are buttons  *)
(* of the device, and devices with the low key codes that                  *)
(* LinuxJoystick::poll overwrites in its table.                            *)
(***************************************************************************)
EXTENDS Integers, FiniteSets, SequencesExt

CONSTANTS
    Devices,      \* the device nodes
    EvdevLimit,   \* the events the kernel keeps for a reader
    MaxEvents,    \* how often a device is plugged, unplugged or used
    Reports,      \* what the devices report
    Garbage       \* what the memory of a new LinuxJoystick's hatValues may hold

\* "A" is any button with a key code; the directions are those of the hat's two axes.
Axes       == {{"left", "right"}, {"up", "down"}}
Directions == UNION Axes
Buttons    == {"A"} \cup Directions

\* A report says which buttons it is about and which of them are down: the button, or where
\* the hat is on one of its axes.
Presses == {{"A"}} \X SUBSET {"A"}
Moves   == {m \in Axes \X SUBSET Directions : m[2] \subseteq m[1] /\ m[2] # m[1]}

ASSUME PadAssumption ==
    /\ IsFiniteSet(Devices) /\ EvdevLimit \in Nat \ {0} /\ MaxEvents \in Nat
    /\ Reports \subseteq Presses \cup Moves /\ Garbage \subseteq SUBSET Directions

VARIABLES
    plugged,      \* the devices that are there
    udev,         \* the events of the udev monitor, <<action, device>>
    joysticks,    \* LinuxJoystickManager::joysticks, each with its Gamepad's index, its
                  \* hatValues, the kernel's buffer of its descriptor, and the buttons that
                  \* the device reported down (down) and reported at all (known)
    takenGamepadLowId,
    gamepads,     \* WindowCallbacks::gamepads: the buttons of each gamepad, by index
    needsQueueGamepadInput,
    focused,      \* focusedWindow is the window
    keyEvents, motionEvents,    \* FakeInputQueue
    attached,     \* FakeLooper::inputEntry is set
    looper,       \* where the thread is, and the joystick it polls
    view,         \* the buttons the game takes to be down, by index
    events,       \* how often a device was plugged, unplugged or used
    history       \* what happened: see NoHistory

device  == <<plugged, udev>>
manager == <<joysticks, takenGamepadLowId>>
queue   == <<keyEvents, motionEvents>>
padVars == <<device, manager, gamepads, needsQueueGamepadInput, focused, queue, attached,
             looper, view, events, history>>

Ids     == 0..(Cardinality(Devices) + MaxEvents)
Dropped == <<"SYN_DROPPED">>
Unwritten == {"uninitialised"}    \* hatValues before the first event of the hat
At(pc)  == <<pc, 0>>
Polled  == looper[2]

\* early: a device came between the start of the monitor and the enumeration.
\* gap: a gamepad was removed while one with a greater index stayed.
\* spoiled: the indices of gamepads that were removed with a button down, or whose events
\* the kernel dropped.  shadowed: those that had no motion event, as another gamepad's was
\* queued in the same poll.
NoHistory == [early |-> FALSE, gap |-> FALSE, spoiled |-> {}, shadowed |-> {}]

PadInit ==
    /\ plugged \in SUBSET Devices /\ udev = <<>> /\ events = 0
    /\ joysticks = <<>> /\ takenGamepadLowId = 0
    /\ gamepads = <<>> /\ needsQueueGamepadInput = TRUE
    /\ focused = FALSE /\ keyEvents = <<>> /\ motionEvents = <<>> /\ attached = FALSE
    /\ looper = At("start")
    /\ view = [i \in Ids |-> {}]
    /\ history = NoHistory

-----------------------------------------------------------------------------
(* The devices *)

\* A device is plugged in: udev announces it once the monitor is there.
Plug(d) ==
    /\ d \notin plugged /\ events < MaxEvents
    /\ plugged' = plugged \cup {d} /\ events' = events + 1
    /\ udev' = IF looper = At("start") THEN udev ELSE Append(udev, <<"add", d>>)
    /\ history' = [history EXCEPT !.early = @ \/ looper = At("scan")]
    /\ UNCHANGED <<manager, gamepads, needsQueueGamepadInput, focused, queue, attached,
                   looper, view>>

\* It is pulled out: reading its descriptor fails from now on.
Unplug(d) ==
    /\ d \in plugged /\ events < MaxEvents
    /\ plugged' = plugged \ {d} /\ events' = events + 1
    /\ udev' = IF looper = At("start") THEN udev ELSE Append(udev, <<"remove", d>>)
    /\ joysticks' = [k \in DOMAIN joysticks |->
                        IF joysticks[k].dev = d THEN [joysticks[k] EXCEPT !.buffer = <<>>]
                        ELSE joysticks[k]]
    /\ history' = [history EXCEPT !.spoiled = @ \cup
                      {js.id : js \in {j \in ToSet(joysticks) : j.dev = d /\ j.buffer # <<>>}}]
    /\ UNCHANGED <<takenGamepadLowId, gamepads, needsQueueGamepadInput, focused, queue,
                   attached, looper, view>>

\* The kernel stores an event for a reader, or throws its buffer away when it is full.
Stored(js, e) ==
    [js EXCEPT !.down = (@ \ e[1]) \cup e[2],
               !.known = @ \cup e[1],
               !.buffer = IF Len(@) < EvdevLimit THEN Append(@, e) ELSE <<Dropped>>]

\* The device reports a button or an axis of its hat: a new state or, with autorepeat or when
\* it was held before the device was opened, the one it is taken to be in already.
Change(d, e) ==
    /\ d \in plugged /\ events < MaxEvents
    /\ \E k \in DOMAIN joysticks : joysticks[k].dev = d
    /\ events' = events + 1
    /\ joysticks' = [k \in DOMAIN joysticks |->
                        IF joysticks[k].dev = d THEN Stored(joysticks[k], e)
                        ELSE joysticks[k]]
    /\ history' = [history EXCEPT !.spoiled = @ \cup
                      {js.id : js \in {j \in ToSet(joysticks) :
                                          j.dev = d /\ Len(j.buffer) = EvdevLimit}}]
    /\ UNCHANGED <<device, takenGamepadLowId, gamepads, needsQueueGamepadInput, focused,
                   queue, attached, looper, view>>

-----------------------------------------------------------------------------
(* GamepadManager and the window *)

\* GamepadManager::takeGamepadId: the index, and the new takenGamepadLowId.  takenGamepadIds,
\* which it looks through, is empty: nothing is ever put into it.
takeGamepadId(low) == <<low, low + 1>>

\* GamepadManager::putGamepadIdBack: the new takenGamepadLowId.
putGamepadIdBack(low, id) == IF id < low THEN id ELSE low

\* A new LinuxJoystick, with its Gamepad's index: nothing initialises hatValues.
Opened(d, id) == [dev |-> d, id |-> id, hat |-> Unwritten, down |-> {}, known |-> {"A"},
                  buffer |-> <<>>]

\* onDeviceAdded opens the device and announces it: a Gamepad with a new index, of which the
\* window hears (and the game, through onInputDeviceAddedNative, which has no effect here).
\* A device that is gone again cannot be opened; when it goes between the open and the
\* ioctls of LinuxJoystick's constructor, that throws, which is not told apart from it here.
onDeviceAdded(s, d) ==
    IF d \notin plugged THEN s
    ELSE LET id == takeGamepadId(s.low)[1]
         IN  [joysticks |-> Append(s.joysticks, Opened(d, id)),
              low       |-> takeGamepadId(s.low)[2],
              gamepads  |-> [i \in DOMAIN s.gamepads \cup {id} |->
                                IF i \in DOMAIN s.gamepads THEN s.gamepads[i] ELSE {}],
              history   |-> s.history]

\* Mutant: the window does not hear of it.
onDeviceRemoved_Silent(s, d) ==
    LET k == SelectInSeq(s.joysticks, LAMBDA js : js.dev = d)
    IN  IF k = 0 THEN s
        ELSE [s EXCEPT !.joysticks = RemoveAt(@, k),
                       !.low = putGamepadIdBack(@, s.joysticks[k].id)]

\* onDeviceRemoved: the first joystick of that path, if any.  The game is not told: neither
\* of the keys that were down, nor (setGameControllerConnected tests `connected' twice) of
\* the removal.
onDeviceRemoved(s, d) ==
    LET k  == SelectInSeq(s.joysticks, LAMBDA js : js.dev = d)
        id == s.joysticks[k].id
    IN  IF k = 0 THEN s
        ELSE [joysticks |-> RemoveAt(s.joysticks, k),
              low       |-> putGamepadIdBack(s.low, id),
              gamepads  |-> [i \in DOMAIN s.gamepads \ {id} |-> s.gamepads[i]],
              history   |->
                [s.history EXCEPT
                    !.gap     = @ \/ \E j \in DOMAIN s.joysticks : s.joysticks[j].id > id,
                    !.spoiled = IF id \in DOMAIN s.gamepads /\ s.gamepads[id] # {}
                                THEN @ \cup {id} ELSE @]]

Current == [joysticks |-> joysticks, low |-> takenGamepadLowId, gamepads |-> gamepads,
            history |-> history]
Becomes(s) == /\ joysticks' = s.joysticks /\ takenGamepadLowId' = s.low
              /\ gamepads' = s.gamepads /\ history' = s.history

\* LinuxJoystickManager::initialize, called by the window's show: the monitor...
StartMonitor ==
    /\ looper = At("start")
    /\ looper' = At("scan")
    /\ UNCHANGED <<device, manager, gamepads, needsQueueGamepadInput, focused, queue,
                   attached, view, events, history>>

\* ...and then the devices that are there, in some order.
Enumerate ==
    /\ looper = At("scan")
    /\ \E order \in SetToSeqs(plugged) : Becomes(FoldLeft(onDeviceAdded, Current, order))
    /\ looper' = At("poll")
    /\ UNCHANGED <<device, needsQueueGamepadInput, focused, queue, attached, view, events>>

-----------------------------------------------------------------------------
(* FakeLooper::pollAll *)

\* The game attaches its queue.
Attach ==
    /\ looper = At("poll") /\ ~attached
    /\ attached' = TRUE
    /\ UNCHANGED <<device, manager, gamepads, needsQueueGamepadInput, focused, queue, looper,
                   view, events, history>>

HasEvents == keyEvents # <<>> \/ motionEvents # <<>>
Polls     == looper = At("poll") /\ ~(attached /\ HasEvents)

\* pollEvents: a focus event of the window.
onWindowFocused(f) ==
    /\ Polls /\ focused # f
    /\ focused' = f
    /\ UNCHANGED <<device, manager, gamepads, needsQueueGamepadInput, queue, attached, looper,
                   view, events, history>>

\* The idle function: LinuxGamepadJoystickManager::update polls for the focused window.
Update ==
    /\ Polls /\ focused
    /\ looper' = At("udev")
    /\ UNCHANGED <<device, manager, gamepads, needsQueueGamepadInput, focused, queue,
                   attached, view, events, history>>

\* LinuxJoystickManager::poll: the events of the monitor.
PollMonitor ==
    /\ looper = At("udev") /\ udev # <<>>
    /\ udev' = Tail(udev)
    /\ Becomes(IF Head(udev)[1] = "add" THEN onDeviceAdded(Current, Head(udev)[2])
               ELSE onDeviceRemoved(Current, Head(udev)[2]))
    /\ UNCHANGED <<plugged, needsQueueGamepadInput, focused, queue, attached, looper,
                   view, events>>

MonitorEmpty ==
    /\ looper = At("udev") /\ udev = <<>>
    /\ looper' = <<"joystick", 1>>
    /\ UNCHANGED <<device, manager, gamepads, needsQueueGamepadInput, focused, queue,
                   attached, view, events, history>>

\* The early return of WindowCallbacks::onGamepadButton, for each of bs.
Unchanged(id, bs, down) == gamepads[id] \cap bs = down

\* onGamepadButton for the buttons bs, of which those in down are pressed; the motion event
\* is queued if none was in this poll (queueGamepadAxisInputIfNeeded).
onGamepadButton(id, bs, down) ==
    IF id \notin DOMAIN gamepads \/ Unchanged(id, bs, down)
    THEN UNCHANGED <<gamepads, keyEvents, motionEvents, needsQueueGamepadInput, history>>
    ELSE /\ gamepads' = [gamepads EXCEPT ![id] = (@ \ bs) \cup down]
         /\ IF bs = {"A"}
            THEN /\ keyEvents' = Append(keyEvents, <<id, down # {}>>)
                 /\ UNCHANGED <<motionEvents, needsQueueGamepadInput, history>>
            ELSE /\ UNCHANGED keyEvents
                 /\ needsQueueGamepadInput' = FALSE
                 /\ IF needsQueueGamepadInput
                    THEN /\ motionEvents' = Append(motionEvents, id)
                         /\ history' = [history EXCEPT !.shadowed = @ \ {id}]
                    ELSE /\ UNCHANGED motionEvents
                         /\ history' = IF motionEvents = <<>> \/ id \in ToSet(motionEvents)
                                       THEN history
                                       ELSE [history EXCEPT !.shadowed = @ \cup {id}]

\* What reading hatValues gives: anything that may be there as long as it was not written.
hatValues(js) == IF js.hat = Unwritten THEN Garbage ELSE {js.hat}

\* An event e of joystick Polled's button, and one of its hat: the bits of that axis replace
\* those in hatValues, and onJoystickHat passes all four on.
ButtonEvent(e) ==
    /\ e \in Presses
    /\ joysticks' = [joysticks EXCEPT ![Polled].buffer = Tail(@)]
    /\ onGamepadButton(joysticks[Polled].id, e[1], e[2])

HatEvent(e) ==
    /\ e \in Moves
    /\ \E v \in hatValues(joysticks[Polled]) :
          LET hat == (v \ e[1]) \cup e[2]
          IN  /\ joysticks' = [joysticks EXCEPT ![Polled].buffer = Tail(@), ![Polled].hat = hat]
              /\ onGamepadButton(joysticks[Polled].id, Directions, hat)

\* LinuxJoystick::poll: the next event of joystick Polled.
PollJoystick ==
    /\ Polled \in DOMAIN joysticks
    /\ joysticks[Polled].buffer # <<>> /\ Head(joysticks[Polled].buffer) # Dropped
    /\ LET e == Head(joysticks[Polled].buffer) IN ButtonEvent(e) \/ HatEvent(e)
    /\ UNCHANGED <<device, takenGamepadLowId, focused, attached, looper, view, events>>

\* Mutant: the descriptor is not read on after the kernel dropped events.
SyncDropped_Kept ==
    /\ Polled \in DOMAIN joysticks
    /\ joysticks[Polled].buffer # <<>> /\ Head(joysticks[Polled].buffer) = Dropped
    /\ looper' = <<"joystick", Polled + 1>>
    /\ UNCHANGED <<device, manager, gamepads, needsQueueGamepadInput, focused, queue,
                   attached, view, events, history>>

\* libevdev answers with LIBEVDEV_READ_STATUS_SYNC, which poll takes for an error; the next
\* LIBEVDEV_READ_FLAG_NORMAL discards what there was to synchronise.
SyncDropped ==
    /\ Polled \in DOMAIN joysticks
    /\ joysticks[Polled].buffer # <<>> /\ Head(joysticks[Polled].buffer) = Dropped
    /\ joysticks' = [joysticks EXCEPT ![Polled].buffer = <<>>]
    /\ looper' = <<"joystick", Polled + 1>>
    /\ UNCHANGED <<device, takenGamepadLowId, gamepads, needsQueueGamepadInput, focused, queue,
                   attached, view, events, history>>

\* EAGAIN, or the error of a device that is gone: on to the next one.
JoystickEmpty ==
    /\ Polled \in DOMAIN joysticks
    /\ joysticks[Polled].buffer = <<>>
    /\ looper' = <<"joystick", Polled + 1>>
    /\ UNCHANGED <<device, manager, gamepads, needsQueueGamepadInput, focused, queue,
                   attached, view, events, history>>

\* Mutant: the next motion event is not asked for.
Requeue_Never == UNCHANGED needsQueueGamepadInput

\* WindowCallbacks::markRequeueGamepadInput.
Requeue == needsQueueGamepadInput' = TRUE

\* pollAll returns.
PollReturns ==
    /\ looper = <<"joystick", Len(joysticks) + 1>>
    /\ looper' = At("poll")
    /\ Requeue
    /\ UNCHANGED <<device, manager, gamepads, focused, queue, attached, view, events, history>>

\* pollAll returns the queue's ident at once and the game gets, handles and finishes an
\* event: the keys first.  A motion event's axisFunction reads the gamepad's state of now.
HandleKey ==
    /\ looper = At("poll") /\ attached /\ keyEvents # <<>>
    /\ LET id == Head(keyEvents)[1]
       IN  view' = [view EXCEPT ![id] = IF Head(keyEvents)[2] THEN @ \cup {"A"} ELSE @ \ {"A"}]
    /\ keyEvents' = Tail(keyEvents)
    /\ UNCHANGED <<device, manager, gamepads, needsQueueGamepadInput, focused, motionEvents,
                   attached, looper, events, history>>

\* What AMOTION_EVENT_AXIS_HAT_X and _HAT_Y tell of the buttons bs: left hides right and up
\* hides down.
Shown(bs) == {b \in bs \cap Directions : /\ b = "right" => "left" \notin bs
                                         /\ b = "down" => "up" \notin bs}

axisFunction(id) == IF id \in DOMAIN gamepads THEN Shown(gamepads[id]) ELSE {}

HandleMotion ==
    /\ looper = At("poll") /\ attached /\ keyEvents = <<>> /\ motionEvents # <<>>
    /\ LET id == Head(motionEvents)
       IN  view' = [view EXCEPT ![id] = (@ \ Directions) \cup axisFunction(id)]
    /\ motionEvents' = Tail(motionEvents)
    /\ UNCHANGED <<device, manager, gamepads, needsQueueGamepadInput, focused, keyEvents,
                   attached, looper, events, history>>

LooperStep ==
    \/ StartMonitor \/ Enumerate
    \/ Update \/ PollMonitor \/ MonitorEmpty
    \/ PollJoystick \/ SyncDropped \/ JoystickEmpty \/ PollReturns
    \/ HandleKey \/ HandleMotion

PadNext ==
    \/ LooperStep \/ Attach
    \/ \E f \in BOOLEAN : onWindowFocused(f)
    \/ \E d \in Devices : Plug(d) \/ Unplug(d)
    \/ \E d \in Devices, e \in Reports : Change(d, e)

PadSpec == PadInit /\ [][PadNext]_padVars

-----------------------------------------------------------------------------
(* Properties *)

\* Whenever the monitor's events have all been read, every device that is there is one
\* joystick, no other is, no two share an index, and the window knows exactly their
\* gamepads.  Two things the code does not rule out are excepted: a device plugged in
\* between the start of the monitor and the enumeration is added twice, and once a gamepad
\* was removed before one with a greater index, takeGamepadId, which does not remember the
\* indices it gave out, comes to that index again.
DevicesMatch ==
    udev = <<>> /\ looper \notin {At("start"), At("scan")} /\ ~history.early /\ ~history.gap =>
        /\ ToSet([k \in DOMAIN joysticks |-> joysticks[k].dev]) = plugged
        /\ \A j, k \in DOMAIN joysticks :
              j # k => joysticks[j].dev # joysticks[k].dev /\ joysticks[j].id # joysticks[k].id
        /\ DOMAIN gamepads = {joysticks[k].id : k \in DOMAIN joysticks}

\* Nothing is on its way to the game.
Quiet == looper = At("poll") /\ udev = <<>> /\ ~HasEvents
            /\ \A k \in DOMAIN joysticks : joysticks[k].buffer = <<>>

\* When nothing is on its way, the game takes exactly those buttons of a gamepad to be down
\* that the device last reported down, whatever it missed while the window had no focus,
\* devices came and went, or the queue was not attached yet.  The exceptions are those of
\* history: the game's keys stay down when a gamepad is pulled out, the kernel's buffer
\* overflows, or (for directions) two gamepads are moved in one poll; and the directions of
\* an axis the device has not reported since it was opened, for which the first event of the
\* other axis passes on whatever was in the memory of hatValues.
GameIsRight ==
    attached /\ Quiet /\ ~history.gap =>
        \A k \in DOMAIN joysticks :
            LET id    == joysticks[k].id
                known == joysticks[k].known \ (IF id \in history.shadowed THEN Directions ELSE {})
            IN  id \notin history.spoiled => view[id] \cap known = joysticks[k].down \cap known

\* While the window keeps the focus, everything the devices report arrives.
InputArrives == <>[](focused /\ attached) => []<>Quiet

=============================================================================
