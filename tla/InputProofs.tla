---------------------------- MODULE InputProofs ----------------------------
(***************************************************************************)
(* Proofs about waiting for input and the screen saver, for every list of  *)
(* keyboards, every size of their table, every content of the              *)
(* uninitialised event and every number of events the devices hold: what   *)
(* is returned and with which light, that no press is lost, and that the   *)
(* locals of INPUT_Wait make a ScreenSaver.                                *)
(***************************************************************************)
EXTENDS Input, SequenceTheorems, FiniteSetTheorems, TLAPS

\* Where the screen saver may have left the backlight.  Nothing is dimmed
\* before the first wait or between two of them; until poll has failed, the
\* screen is lit unless a flag says otherwise, and when INPUT_Wait returns.
Saver ==
  /\ pc \in {"start", "scandir"} => ~ NeedsLight
  /\ pc = "dark" => disabled
  /\ (result = "none") <=> (pc # "returned")
  /\ errors \in Nat /\ counter \in 0 .. OffAfter
  /\ errors = 0 =>
       /\ ~ NeedsLight => backlight = Full
       /\ pc = "returned" => backlight = Full

\* The dimming has five levels.
LEMMA Levels == DOMAIN DimLevel = 1 .. 5 /\ OffAfter = DimAfter + 5
BY DEF DimLevel, OffAfter

\* A count of timeouts in the range of the dimming is the index of a level.
LEMMA LevelIndex ==
  ASSUME NEW d \in Nat, NEW c \in d .. (d + 5) - 1
  PROVE  c - d + 1 \in 1 .. 5
OBVIOUS

\* A percentage that is applied is a value of the backlight; a smaller one is a
\* smaller value.
LEMMA AppliedBound ==
  ASSUME NEW p \in 0 .. 100
  PROVE  Applied(p) \in 0 .. 255 /\ \A q \in 0 .. 100 : q < p => Applied(q) < Applied(p)
BY DEF Applied

\* A level of the dimming is below the brightness it is a percentage of.
LEMMA LevelBound ==
  ASSUME NEW i \in 1 .. 5
  PROVE  /\ (DimLevel[i] * Brightness) \div 100 \in 0 .. Brightness
         /\ Brightness # 0 => (DimLevel[i] * Brightness) \div 100 < Brightness
<1>1. DimLevel[i] \in {50, 25, 10, 5, 1}
  BY DEF DimLevel
<1>2. Brightness \in 0 .. 100
  BY InputAssumption
<1>3. ASSUME NEW l \in {50, 25, 10, 5, 1}
      PROVE  /\ (l * Brightness) \div 100 \in 0 .. Brightness
             /\ Brightness # 0 => (l * Brightness) \div 100 < Brightness
  <2>1. CASE l = 50  BY <1>2, <2>1
  <2>2. CASE l = 25  BY <1>2, <2>2
  <2>3. CASE l = 10  BY <1>2, <2>3
  <2>4. CASE l = 5   BY <1>2, <2>4
  <2>5. CASE l = 1   BY <1>2, <2>5
  <2>6. QED  BY <1>3, <2>1, <2>2, <2>3, <2>4, <2>5
<1>4. QED  BY <1>1, <1>3

\* The lights: only with no brightness at all are they the same.
LEMMA Lights ==
  /\ Off = 0 /\ Full \in 0 .. 255 /\ (Brightness # 0 => Full # Off)
  /\ \A c \in DimAfter .. OffAfter - 1 :
       /\ Dimmed(c) \in 0 .. 255
       /\ Brightness # 0 => Dimmed(c) # Full
       /\ Brightness = 0 => Dimmed(c) = Full
<1>1. Off = 0 /\ Brightness \in 0 .. 100 /\ (Brightness = 0 => Full = 0)
  BY InputAssumption DEF Off, Full, Applied
<1>2. Full \in 0 .. 255 /\ \A q \in 0 .. 100 : q < Brightness => Applied(q) < Full
  BY <1>1, AppliedBound DEF Full
<1>3. Brightness # 0 => Full # Off
  <2>1. Brightness # 0 => 0 < Brightness
    BY <1>1
  <2>2. QED  BY <1>1, <1>2, <2>1 DEF Off
<1>4. ASSUME NEW c \in DimAfter .. OffAfter - 1
      PROVE  /\ Dimmed(c) \in 0 .. 255
             /\ Brightness # 0 => Dimmed(c) # Full
             /\ Brightness = 0 => Dimmed(c) = Full
  <2> DEFINE q == (DimLevel[c - DimAfter + 1] * Brightness) \div 100
  <2>1. DimAfter \in Nat /\ c \in DimAfter .. (DimAfter + 5) - 1
    BY InputAssumption, Levels
  <2>2. c - DimAfter + 1 \in 1 .. 5
    BY <2>1, LevelIndex
  <2>3. q \in 0 .. Brightness /\ (Brightness # 0 => q < Brightness)
    BY <2>2, LevelBound
  <2>4. Dimmed(c) = Applied(q)
    BY DEF Dimmed
  <2> HIDE DEF q
  <2>5. q \in 0 .. 100
    BY <1>1, <2>3
  <2>6. Applied(q) \in 0 .. 255
    BY <2>5, AppliedBound
  <2>7. Brightness # 0 => Applied(q) < Full
    BY <1>2, <2>3, <2>5
  <2>8. Brightness = 0 => Applied(q) = Full
    BY <1>1, <2>3 DEF Full
  <2>9. QED  BY <1>2, <2>4, <2>6, <2>7, <2>8
<1>5. QED  BY <1>1, <1>2, <1>3, <1>4

\* The presses of the code and what INPUT_Wait answers.
LEMMA Answers ==
  /\ Press = {"select", "up", "down", "kenter", "kup", "kdown"}
  /\ \A e \in Press : Answer[e] \in {"SELECT", "UP", "DOWN"}
BY DEF Press, Answer

\* Reading an event keeps the flags or wakes the screen, whatever it was read
\* from; it returns with the answer to a press.
Handled ==
  /\ pc = "scan" /\ errors' = errors
  /\ \/ Wake /\ pc' = "returned" /\ result' \in {"SELECT", "UP", "DOWN"}
     \/ Wake /\ UNCHANGED <<pc, result>>
     \/ UNCHANGED <<pc, result, backlight, locals>>

\* So does every read.
LEMMA ReadsHandled ==
  /\ \A d \in Buttons : ReadButton(d) => Handled
  /\ ReadTouch => Handled
  /\ \A k \in ScannedKbds : ReadKbd(k) => Handled
<1>1. ASSUME NEW d \in Buttons, ReadButton(d) PROVE Handled
  <2>1. CASE Head(queue[d]) \in Press
    <3>1. pc = "scan" /\ errors' = errors /\ Wake /\ Return(Answer[Head(queue[d])])
      BY <1>1, <2>1 DEF ReadButton, PressAnswered
    <3>2. QED  BY <2>1, <3>1, Answers DEF Handled, Return
  <2>2. CASE Head(queue[d]) \notin Press
    BY <1>1, <2>2 DEF ReadButton, PressAnswered, Handled
  <2>3. QED  BY <2>1, <2>2
<1>2. ASSUME ReadTouch PROVE Handled
  <2>1. /\ pc = "scan" /\ UNCHANGED <<pc, result, errors>>
        /\ Wake \/ UNCHANGED <<backlight, locals>>
    BY <1>2 DEF ReadTouch
  <2>2. QED  BY <2>1 DEF Handled
<1>3. ASSUME NEW k \in ScannedKbds, ReadKbd(k) PROVE Handled
  <2>1. CASE ev' \in KbdKeys
    <3>1. pc = "scan" /\ errors' = errors /\ Wake /\ Return(Answer[ev'])
      BY <1>3, <2>1 DEF ReadKbd
    <3>2. QED  BY <2>1, <3>1, Answers DEF Handled, Return, KbdKeys
  <2>2. CASE ev' \notin KbdKeys
    BY <1>3, <2>2 DEF ReadKbd, Handled
  <2>3. QED  BY <2>1, <2>2
<1>4. QED  BY <1>1, <1>2, <1>3

\* Every step keeps the screen saver in order.
LEMMA SaverKept ==
  ASSUME Saver, [Next]_vars
  PROVE  Saver'
<1> USE InputAssumption DEF Saver
<1>1. CASE OpenButtons \/ AddKeyboard \/ EndScandir \/ Poll
  <2>1. /\ UNCHANGED <<locals, result, backlight, errors>>
        /\ pc \in {"start", "scandir", "poll"} /\ pc' \in {"start", "scandir", "poll", "scan"}
        /\ pc' \in {"start", "scandir"} => pc \in {"start", "scandir"}
    BY <1>1 DEF OpenButtons, AddKeyboard, EndScandir, Poll
  <2>2. QED  BY <2>1 DEF locals, NeedsLight
<1>2. ASSUME NEW d \in Devices, Arrive(d) \/ Unplug(d) PROVE Saver'
  <2>1. UNCHANGED <<locals, result, backlight, errors, pc>>
    BY <1>2 DEF Arrive, Unplug
  <2>2. QED  BY <2>1 DEF locals, NeedsLight
<1>3. CASE Timeout
  <2>1. /\ UNCHANGED <<result, errors>> /\ counter' \in 0 .. OffAfter
        /\ pc = "poll" /\ pc' = IF disabled' THEN "dark" ELSE "poll"
    BY <1>3, Levels DEF Timeout, NextCount
  <2>2. CASE UNCHANGED <<dimmed, disabled, backlight>>
    BY <2>1, <2>2 DEF NeedsLight
  <2>3. CASE dimmed' \/ disabled'
    BY <2>1, <2>3 DEF NeedsLight
  <2>4. QED  BY <1>3, <2>2, <2>3 DEF Timeout
<1>4. CASE PollError
  <2>1. pc' = "returned" /\ result' = "ERROR" /\ errors' = errors + 1 /\ counter' = counter
    BY <1>4 DEF PollError, locals
  <2>2. QED  BY <2>1
<1>5. CASE EndScan
  <2>1. /\ UNCHANGED <<locals, result, backlight, errors>>
        /\ pc = "scan" /\ pc' = IF disabled THEN "dark" ELSE "poll"
    BY <1>5 DEF EndScan
  <2>2. QED  BY <2>1 DEF locals, NeedsLight
<1>6. CASE LeaveDark
  <2>1. /\ UNCHANGED <<dimmed, disabled, result, errors>>
        /\ pc = "dark" /\ pc' = "poll" /\ counter' = 0 /\ backlight' = Full
    BY <1>6 DEF LeaveDark, LightAfterDark
  <2>2. QED  BY <2>1, Levels DEF NeedsLight
<1>7. CASE Resume
  <2>1. /\ pc = "returned" /\ pc' = "poll" /\ result' = "none" /\ counter' = 0
        /\ UNCHANGED <<backlight, errors>>
    BY <1>7 DEF Resume
  <2>2. QED  BY <2>1, Levels
<1>8. CASE Handled
  <2>1. CASE UNCHANGED <<pc, result, backlight, locals>>
    BY <1>8, <2>1 DEF Handled, locals, NeedsLight
  <2>2. CASE Wake
    <3>1. /\ pc' = "scan" \/ (pc' = "returned" /\ result' # "none")
          /\ pc' = "scan" => result' = result
      BY <1>8, <2>1 DEF Handled
    <3>2. backlight' = Full \/ (backlight' = backlight /\ ~ NeedsLight)
      BY <2>2 DEF Wake
    <3>3. counter' \in 0 .. OffAfter
      BY <2>2, Levels DEF Wake, locals
    <3>4. QED  BY <1>8, <3>1, <3>2, <3>3 DEF Handled
  <2>3. QED  BY <1>8, <2>1, <2>2 DEF Handled
<1>9. CASE UNCHANGED vars
  BY <1>9 DEF vars, locals, NeedsLight
<1>10. QED
  BY <1>1, <1>2, <1>3, <1>4, <1>5, <1>6, <1>7, <1>8, <1>9, ReadsHandled
     DEF Next, Program, Environment

\* Before the first wait the screen is lit.
LEMMA SaverInit == Init => Saver
BY InputAssumption, Levels DEF Init, Saver, NeedsLight

\* A press is acted on with the screen fully lit, whatever the screen saver did.
THEOREM PressLit == Spec => []AnsweredLit
<1>1. Saver => AnsweredLit
  BY DEF Saver, AnsweredLit
<1>2. QED  BY <1>1, SaverInit, SaverKept, PTL DEF Spec
-----------------------------------------------------------------------------
\* What a device may hold.
Events(d) ==
  IF d \in Keyboards THEN KbdKeys \cup {"other"} ELSE Press \cup {"contact", "other"}

\* The devices deliver their own events, and a button or the panel that poll
\* found ready still is when its turn comes.  (A keyboard may not be: the turn
\* of the one before it has read its event.)
Queues ==
  /\ queue \in [Devices \cup {"stdin"} -> Seq(Press \cup {"contact", "other", "typed"})]
  /\ \A d \in Devices : queue[d] \in Seq(Events(d))
  /\ queue["stdin"] \in {<<>>, <<"typed">>}
  /\ revents \subseteq Devices
  /\ \A d \in revents \cap DarkDevices : queue[d] # <<>>

\* A function of its domain's values has their type.
LEMMA FunctionTyped ==
  ASSUME NEW S, NEW T, NEW f, f = [x \in S |-> f[x]], \A x \in S : f[x] \in T
  PROVE  f \in [S -> T]
OBVIOUS

\* A packet holds events of its device.
LEMMA PacketsTyped ==
  ASSUME NEW d \in Devices, NEW p \in Packets(d)
  PROVE  p \in Seq(Events(d)) /\ p # <<>>
<1>1. EventsOf(d) \subseteq Events(d)
  BY InputAssumption, Answers DEF EventsOf, Events, Devices, Buttons, KbdKeys
<1>2. "other" \in Events(d)
  BY DEF Events
<1>3. CASE p = <<"other">>
  BY <1>2, <1>3
<1>4. CASE \E e \in EventsOf(d) : p = <<e, "other">>
  <2>1. PICK e \in Events(d) : p = <<e, "other">>
    BY <1>1, <1>4
  <2>2. QED  BY <1>2, <2>1
<1>5. QED  BY <1>3, <1>4 DEF Packets

\* The keyboard loop reads a keyboard, or the terminal.
LEMMA KbdRead ==
  ASSUME NEW k \in ScannedKbds, numKbdFds \in Nat, numKbdFds <= Len(Kbds)
  PROVE  ReadFrom(k) \in Keyboards \cup {"stdin"}
BY InputAssumption DEF ReadFrom, ScannedKbds, Keyboards

\* What a read may give for a keyboard.
LEMMA EventsSubset ==
  ASSUME NEW d \in Devices
  PROVE  Events(d) \subseteq Press \cup {"contact", "other", "typed"}
BY Answers DEF Events, KbdKeys

\* Every step keeps the queues: what is read is the head of a queue that is not
\* empty, or nothing.
LEMMA QueuesKept ==
  ASSUME Queues, numKbdFds \in Nat, numKbdFds <= Len(Kbds), [Next]_vars
  PROVE  Queues'
<1> USE DEF Queues
<1>1. ASSUME NEW d \in Devices, Arrive(d) PROVE Queues'
  <2>1. PICK p \in Packets(d), typed \in BOOLEAN :
          queue' = [queue EXCEPT ![d] = @ \o p,
                                 !["stdin"] = IF typed THEN <<"typed">> ELSE @]
    BY <1>1 DEF Arrive
  <2>2. p \in Seq(Events(d)) /\ p # <<>> /\ d # "stdin"
    BY PacketsTyped, InputAssumption DEF Devices, Buttons
  <2>3. queue[d] \o p \in Seq(Events(d)) /\ queue[d] \o p # <<>>
    BY <2>2
  <2>4. queue'[d] = queue[d] \o p /\ \A e \in Devices \ {d} : queue'[e] = queue[e]
    BY <2>1, <2>2, InputAssumption DEF Devices, Buttons
  <2>5. queue'["stdin"] \in {<<>>, <<"typed">>}
    BY <2>1, <2>2
  <2>6. queue[d] \o p \in Seq(Press \cup {"contact", "other", "typed"})
    BY <2>3, EventsSubset
  <2>7. revents' = revents
    BY <1>1 DEF Arrive
  <2>8. queue' \in [Devices \cup {"stdin"} -> Seq(Press \cup {"contact", "other", "typed"})]
    <3>1. queue'["stdin"] \in Seq(Press \cup {"contact", "other", "typed"})
      <4>1. "typed" \in Press \cup {"contact", "other", "typed"}
        OBVIOUS
      <4>2. <<"typed">> \in Seq(Press \cup {"contact", "other", "typed"})
        BY <4>1
      <4>3. <<>> \in Seq(Press \cup {"contact", "other", "typed"})
        OBVIOUS
      <4>4. QED  BY <2>5, <4>2, <4>3
    <3>2. \A f \in Devices \cup {"stdin"} :
            queue'[f] \in Seq(Press \cup {"contact", "other", "typed"})
      BY <2>4, <2>6, <3>1
    <3>3. queue' = [f \in Devices \cup {"stdin"} |-> queue'[f]]
      BY <2>1
    <3>4. QED  BY <3>2, <3>3, FunctionTyped
  <2>9. QED
    BY <2>3, <2>4, <2>5, <2>7, <2>8
<1>2. CASE Poll
  BY <1>2 DEF Poll, Ready
<1>3. ASSUME NEW d \in Buttons \cup {"touch"},
             queue' = [queue EXCEPT ![d] = Tail(@)], revents' = revents \ {d}, d \in revents
      PROVE  Queues'
  <2>1. d \in Devices /\ d \in DarkDevices /\ d # "stdin" /\ queue[d] # <<>>
    BY <1>3, InputAssumption DEF Devices, DarkDevices, Buttons
  <2>2. Tail(queue[d]) \in Seq(Events(d))
    BY <2>1
  <2>3. Tail(queue[d]) \in Seq(Press \cup {"contact", "other", "typed"})
    BY <2>1, <2>2, EventsSubset
  <2>4. /\ queue'[d] = Tail(queue[d])
        /\ \A f \in (Devices \cup {"stdin"}) \ {d} : queue'[f] = queue[f]
    BY <1>3, <2>1
  <2>5. queue' \in [Devices \cup {"stdin"} -> Seq(Press \cup {"contact", "other", "typed"})]
    BY <1>3, <2>1, <2>3
  <2>6. "stdin" # d
    BY <2>1
  <2>7. QED  BY <1>3, <2>1, <2>2, <2>4, <2>5, <2>6
<1>4. ASSUME NEW k \in ScannedKbds, ReadKbd(k) PROVE Queues'
  <2> DEFINE fd == ReadFrom(k)
  <2>1. fd \in Keyboards \cup {"stdin"}
    BY <1>4, KbdRead
  <2>2. fd \in Devices \cup {"stdin"} /\ fd \notin DarkDevices
    BY <2>1, InputAssumption DEF Devices, DarkDevices, Buttons
  <2>3. /\ queue' = [queue EXCEPT ![fd] = IF @ = <<>> THEN @ ELSE Tail(@)]
        /\ revents' \subseteq revents
    BY <1>4 DEF ReadKbd
  <2> HIDE DEF fd
  <2>4. CASE queue[fd] = <<>>
    <3>1. queue' = queue
      BY <2>2, <2>3, <2>4
    <3>2. QED  BY <2>3, <3>1
  <2>5. CASE queue[fd] # <<>>
    <3>1. fd = "stdin" => queue[fd] = <<"typed">>
      BY <2>5
    <3>2. fd = "stdin" => Tail(queue[fd]) = <<>>
      <4>1. <<"typed">> \in Seq({"typed"}) /\ Len(<<"typed">>) = 1
        OBVIOUS
      <4>2. Tail(<<"typed">>) \in Seq({"typed"}) /\ Len(Tail(<<"typed">>)) = 0
        BY <4>1
      <4>3. Tail(<<"typed">>) = <<>>
        BY <4>2, EmptySeq
      <4>4. QED  BY <3>1, <4>3
    <3>3. fd # "stdin" => fd \in Devices /\ Tail(queue[fd]) \in Seq(Events(fd))
      BY <2>2, <2>5
    <3>4. Tail(queue[fd]) \in Seq(Press \cup {"contact", "other", "typed"})
      BY <2>2, <2>5
    <3>5. queue' = [queue EXCEPT ![fd] = Tail(queue[fd])]
      BY <2>2, <2>3, <2>5
    <3>6. /\ queue'[fd] = Tail(queue[fd])
          /\ \A f \in (Devices \cup {"stdin"}) \ {fd} : queue'[f] = queue[f]
      BY <2>2, <3>5
    <3>7. queue' \in [Devices \cup {"stdin"} -> Seq(Press \cup {"contact", "other", "typed"})]
      <4>1. \A f \in Devices \cup {"stdin"} :
              queue'[f] \in Seq(Press \cup {"contact", "other", "typed"})
        BY <2>2, <3>4, <3>6
      <4>2. queue' = [f \in Devices \cup {"stdin"} |-> queue'[f]]
        BY <3>5
      <4>3. QED  BY <4>1, <4>2, FunctionTyped
    <3>8. \A f \in Devices : queue'[f] \in Seq(Events(f))
      <4>1. "stdin" \notin Devices
        BY InputAssumption DEF Devices, Buttons
      <4>2. \A f \in Devices \ {fd} : queue'[f] \in Seq(Events(f))
        BY <3>6
      <4>3. fd \in Devices => queue'[fd] \in Seq(Events(fd))
        BY <3>3, <3>6, <4>1
      <4>4. QED  BY <4>2, <4>3
    <3>9. queue'["stdin"] \in {<<>>, <<"typed">>}
      BY <3>2, <3>6
    <3>10. \A f \in revents' \cap DarkDevices : queue'[f] # <<>>
      BY <2>2, <2>3, <3>6
    <3>11. QED  BY <2>3, <3>7, <3>8, <3>9, <3>10
  <2>6. QED  BY <2>4, <2>5
<1>5. CASE UNCHANGED queue /\ revents' \in {revents, {}}
  BY <1>5
<1>6. ASSUME NEW d \in Buttons, ReadButton(d) PROVE Queues'
  BY <1>3, <1>6 DEF ReadButton
<1>7. CASE ReadTouch
  BY <1>3, <1>7 DEF ReadTouch
<1>8. CASE OpenButtons \/ AddKeyboard \/ EndScandir \/ Timeout \/ EndScan \/ LeaveDark \/ Resume
  BY <1>5, <1>8 DEF OpenButtons, AddKeyboard, EndScandir, Timeout, EndScan, LeaveDark, Resume
<1>9. CASE PollError \/ (\E d \in Devices : Unplug(d)) \/ UNCHANGED vars
  BY <1>5, <1>9 DEF PollError, Unplug, vars
<1>10. QED
  BY <1>1, <1>2, <1>4, <1>6, <1>7, <1>8, <1>9 DEF Next, Program, Environment
-----------------------------------------------------------------------------
\* The rest of the types.
Places ==
  /\ numKbdFds \in 0 .. MaxKbds /\ numKbdFds <= Len(Kbds)
  /\ unplugged \subseteq Opened
  /\ pc \in {"start", "scandir", "poll", "scan", "dark", "returned"}
  /\ ev \in KbdKeys \cup {"other"}
  /\ result \in {"none", "UP", "DOWN", "SELECT", "ERROR"}
  /\ backlight \in 0 .. 255
  /\ errors \in 0 .. MaxErrors

\* Every step keeps them; what reaches ev are the events of a keyboard.
LEMMA PlacesKept ==
  ASSUME Places, Queues, Saver, [Next]_vars
  PROVE  Places'
<1> USE InputAssumption DEF Places
<1>1. CASE OpenButtons \/ EndScandir \/ Poll \/ EndScan \/ LeaveDark
  <2>1. Full \in 0 .. 255
    BY Lights
  <2>2. /\ UNCHANGED <<numKbdFds, unplugged, ev, result, errors>>
        /\ pc' \in {"scandir", "poll", "scan", "dark"} /\ backlight' \in {backlight, Full}
    BY <1>1 DEF OpenButtons, EndScandir, Poll, EndScan, LeaveDark, LightAfterDark
  <2>3. backlight' \in 0 .. 255
    BY <2>1, <2>2
  <2>4. Opened' = Opened
    BY <2>2 DEF Opened
  <2>5. QED  BY <2>2, <2>3, <2>4
<1>2. CASE AddKeyboard
  <2>1. numKbdFds' \in 0 .. MaxKbds /\ numKbdFds' <= Len(Kbds) /\ numKbdFds < numKbdFds'
    BY <1>2 DEF AddKeyboard, Room
  <2>2. Opened \subseteq Opened'
    BY <2>1 DEF Opened
  <2>3. QED  BY <1>2, <2>1, <2>2 DEF AddKeyboard
<1>3. CASE \E d \in Devices : Arrive(d) \/ Unplug(d)
  <2>1. UNCHANGED <<numKbdFds, pc, ev, result, backlight, errors>>
    BY <1>3 DEF Arrive, Unplug
  <2>2. unplugged' \subseteq Opened
    BY <1>3 DEF Arrive, Unplug
  <2>3. Opened' = Opened
    BY <2>1 DEF Opened
  <2>4. QED  BY <2>1, <2>2, <2>3
<1>4. CASE Timeout
  <2>1. /\ UNCHANGED <<numKbdFds, unplugged, ev, result, errors>> /\ pc' \in {"dark", "poll"}
        /\ \/ backlight' \in {backlight, Off}
           \/ counter' \in DimAfter .. OffAfter - 1 /\ backlight' = Dimmed(counter')
    BY <1>4 DEF Timeout
  <2>2. backlight' \in 0 .. 255
    <3>1. Off \in 0 .. 255
      BY Lights
    <3>2. ASSUME NEW c \in DimAfter .. OffAfter - 1 PROVE Dimmed(c) \in 0 .. 255
      BY Lights
    <3>3. CASE backlight' \in {backlight, Off}
      BY <3>1, <3>3
    <3>4. CASE counter' \in DimAfter .. OffAfter - 1 /\ backlight' = Dimmed(counter')
      BY ONLY <3>2, <3>4
    <3>5. QED  BY <2>1, <3>3, <3>4
  <2>3. Opened' = Opened
    BY <2>1 DEF Opened
  <2>4. QED  BY <2>1, <2>2, <2>3
<1>5. CASE PollError
  BY <1>5 DEF PollError, Opened
<1>6. CASE Resume
  BY <1>6 DEF Resume, Opened
<1>7. ASSUME Handled, UNCHANGED <<numKbdFds, unplugged>>, ev' \in KbdKeys \cup {"other"}
      PROVE  Places'
  <2>1. /\ errors' = errors /\ pc' \in {"scan", "returned"}
        /\ result' \in {result, "SELECT", "UP", "DOWN"} /\ backlight' \in {Full, backlight}
    BY <1>7 DEF Handled, Wake
  <2>2. backlight' \in 0 .. 255
    BY <2>1, Lights
  <2>3. Opened' = Opened
    BY <1>7 DEF Opened
  <2>4. QED  BY <1>7, <2>1, <2>2, <2>3
<1>8. CASE ReadTouch \/ \E d \in Buttons : ReadButton(d)
  BY <1>7, <1>8, ReadsHandled DEF ReadTouch, ReadButton
<1>9. ASSUME NEW k \in ScannedKbds, ReadKbd(k) PROVE Places'
  <2> DEFINE fd == ReadFrom(k)
  <2>1. fd \in Keyboards \cup {"stdin"}
    BY <1>9, KbdRead
  <2>2. ev' = IF fd = "stdin" \/ queue[fd] = <<>> THEN ev ELSE Head(queue[fd])
    BY <1>9 DEF ReadKbd
  <2>3. ASSUME fd # "stdin", queue[fd] # <<>> PROVE Head(queue[fd]) \in KbdKeys \cup {"other"}
    <3>1. fd \in Keyboards /\ fd \in Devices
      BY <2>1, <2>3 DEF Devices
    <3>2. queue[fd] \in Seq(KbdKeys \cup {"other"})
      BY <3>1 DEF Queues, Events
    <3>3. QED  BY <2>3, <3>2
  <2>4. ev' \in KbdKeys \cup {"other"}
    BY <2>2, <2>3
  <2>5. QED  BY <1>7, <1>9, <2>4, ReadsHandled DEF ReadKbd
<1>10. CASE UNCHANGED vars
  BY <1>10 DEF vars, Opened
<1>11. QED
  BY <1>1, <1>2, <1>3, <1>4, <1>5, <1>6, <1>8, <1>9, <1>10 DEF Next, Program, Environment

\* The two flags of the screen saver are Boolean.
SaverFlags == dimmed \in BOOLEAN /\ disabled \in BOOLEAN

\* Every step keeps them Boolean.
LEMMA SaverFlagsKept ==
  ASSUME SaverFlags, [Next]_vars
  PROVE  SaverFlags'
<1> USE DEF SaverFlags, locals
<1>1. CASE OpenButtons \/ AddKeyboard \/ EndScandir \/ Poll \/ PollError \/ EndScan \/ LeaveDark
  BY <1>1, Zenon DEF OpenButtons, AddKeyboard, EndScandir, Poll, PollError, EndScan, LeaveDark
<1>2. CASE \E d \in Devices : Arrive(d) \/ Unplug(d)
  BY <1>2, Zenon DEF Arrive, Unplug
<1>3. CASE Timeout
  <2>1. dimmed' \in {dimmed, TRUE, FALSE} /\ disabled' \in {disabled, TRUE}
    BY <1>3, Zenon DEF Timeout
  <2>2. QED  BY <2>1, Zenon
<1>4. CASE Handled
  BY <1>4, Zenon DEF Handled, Wake
<1>5. CASE Resume \/ UNCHANGED vars
  BY <1>5, Zenon DEF Resume, vars
<1>6. QED
  BY <1>1, <1>2, <1>3, <1>4, <1>5, ReadsHandled, Zenon DEF Next, Program, Environment

\* The inductive invariant.
Typed == Saver /\ Queues /\ Places /\ SaverFlags

\* It holds in every state.
LEMMA Invariance == Spec => []Typed
<1>1. Init => Typed
  <2>1. Init => Queues
    BY DEF Init, Queues
  <2>2. Init => Places
    BY InputAssumption, Lights DEF Init, Places
  <2>3. Init => SaverFlags
    BY Zenon DEF Init, SaverFlags
  <2>4. QED  BY <2>1, <2>2, <2>3, SaverInit DEF Typed
<1>2. Typed /\ [Next]_vars => Typed'
  <2>1. Places => numKbdFds \in Nat /\ numKbdFds <= Len(Kbds)
    BY InputAssumption DEF Places
  <2>2. QED  BY <2>1, SaverKept, QueuesKept, PlacesKept, SaverFlagsKept DEF Typed
<1>3. QED  BY <1>1, <1>2, PTL DEF Spec

\* The types of the variables, for every list of keyboards: INPUT_Init opens no
\* more than its table holds, a read finds an event of its own device, and what
\* the uninitialised event holds is never anything but an event.
THEOREM TypeCorrect == Spec => []TypeOK
<1>1. Typed => TypeOK
  <2>1. Queues => \A d \in Devices : queue[d] \in Seq(Press \cup {"contact", "other"})
    BY Answers DEF Queues, Events, KbdKeys
  <2>2. Typed => /\ numKbdFds \in 0 .. MaxKbds
                 /\ queue["stdin"] \in {<<>>, <<"typed">>}
                 /\ revents \subseteq Devices
                 /\ counter \in 0 .. OffAfter
    BY DEF Typed, Saver, Queues, Places
  <2>3. QED  BY <2>1, <2>2 DEF Typed, Places, SaverFlags, TypeOK
<1>2. QED  BY <1>1, Invariance, PTL
-----------------------------------------------------------------------------
\* Where a sequence of events holds presses.
PressesIn(q) == {i \in DOMAIN q : q[i] \in Press}

\* There are finitely many, as many as Presses counts.
LEMMA PressesFinite ==
  ASSUME NEW S, NEW q \in Seq(S)
  PROVE  /\ IsFiniteSet(PressesIn(q)) /\ Presses(q) = Cardinality(PressesIn(q))
         /\ Presses(q) \in Nat
<1>1. DOMAIN q = 1 .. Len(q) /\ Len(q) \in Nat
  BY LenProperties
<1>2. IsFiniteSet(1 .. Len(q)) /\ PressesIn(q) \in SUBSET (1 .. Len(q))
  BY <1>1, FS_Interval DEF PressesIn
<1>3. IsFiniteSet(PressesIn(q))
  BY <1>2, FS_Subset
<1>4. QED  BY <1>3, FS_CardinalityType DEF PressesIn, Presses

\* What arrives takes no press away.
LEMMA PressesArrive ==
  ASSUME NEW S, NEW q \in Seq(S), NEW p \in Seq(S)
  PROVE  ~ (Presses(q \o p) < Presses(q))
<1>1. /\ q \o p \in Seq(S) /\ Len(q) \in Nat /\ Len(p) \in Nat
      /\ Len(q \o p) = Len(q) + Len(p)
      /\ \A i \in 1 .. Len(q) + Len(p) : i <= Len(q) => (q \o p)[i] = q[i]
      /\ DOMAIN q = 1 .. Len(q) /\ DOMAIN (q \o p) = 1 .. Len(q) + Len(p)
  BY ConcatProperties, LenProperties
<1>2. PressesIn(q) \in SUBSET PressesIn(q \o p)
  BY <1>1 DEF PressesIn
<1>3. /\ IsFiniteSet(PressesIn(q \o p))
      /\ Presses(q) = Cardinality(PressesIn(q)) /\ Presses(q) \in Nat
      /\ Presses(q \o p) = Cardinality(PressesIn(q \o p)) /\ Presses(q \o p) \in Nat
  BY <1>1, PressesFinite
<1>4. Cardinality(PressesIn(q)) <= Cardinality(PressesIn(q \o p))
  BY <1>2, <1>3, FS_Subset
<1>5. QED  BY <1>3, <1>4

\* Neither does reading an event that is none: what follows moves up by one.
LEMMA PressesTail ==
  ASSUME NEW S, NEW q \in Seq(S), q # <<>>, Head(q) \notin Press
  PROVE  ~ (Presses(Tail(q)) < Presses(q))
<1>1. /\ Tail(q) \in Seq(S) /\ Len(q) \in Nat \ {0} /\ Len(Tail(q)) = Len(q) - 1
      /\ \A i \in 1 .. Len(q) - 1 : Tail(q)[i] = q[i + 1]
      /\ DOMAIN q = 1 .. Len(q) /\ DOMAIN Tail(q) = 1 .. Len(q) - 1
      /\ q[1] = Head(q)
  BY HeadTailProperties, LenProperties, EmptySeq
<1> DEFINE f == [i \in PressesIn(q) |-> i - 1]
<1>2. ASSUME NEW i \in PressesIn(q) PROVE i - 1 \in PressesIn(Tail(q))
  <2>1. i \in 1 .. Len(q) /\ i # 1 /\ q[i] \in Press
    BY <1>1 DEF PressesIn
  <2>2. i - 1 \in 1 .. Len(q) - 1 /\ (i - 1) + 1 = i
    BY <1>1, <2>1
  <2>3. QED  BY <1>1, <2>1, <2>2 DEF PressesIn
<1>3. f \in Injection(PressesIn(q), PressesIn(Tail(q)))
  <2>1. f \in [PressesIn(q) -> PressesIn(Tail(q))]
    BY <1>2
  <2>2. PressesIn(q) \subseteq Int
    BY <1>1 DEF PressesIn
  <2>3. \A i, j \in PressesIn(q) : f[i] = f[j] => i = j
    BY <2>2
  <2>4. QED  BY <2>1, <2>3 DEF Injection, IsInjective
<1>4. /\ IsFiniteSet(PressesIn(Tail(q)))
      /\ Presses(q) = Cardinality(PressesIn(q)) /\ Presses(q) \in Nat
      /\ Presses(Tail(q)) = Cardinality(PressesIn(Tail(q))) /\ Presses(Tail(q)) \in Nat
  BY <1>1, PressesFinite
<1> HIDE DEF f
<1>5. Cardinality(PressesIn(q)) <= Cardinality(PressesIn(Tail(q)))
  BY <1>3, <1>4, FS_Injection
<1>6. QED  BY <1>4, <1>5

\* PressTaken: for every list of keyboards and every number of events held, a
\* press that leaves the queue of a button is the one INPUT_Wait returns
\* (input.c).  A read that finds no press takes none, and nothing else reads the
\* buttons: a keyboard is read from its own descriptor or from the terminal.
THEOREM PressesTaken == Spec => PressTaken
<1>1. Typed /\ [Next]_vars => [PressStep]_vars
  <2> SUFFICES ASSUME Typed, Next, NEW d \in Buttons, Presses(queue'[d]) < Presses(queue[d])
               PROVE  pc' = "returned" /\ result' = Answer[Head(queue[d])]
    BY DEF PressStep
  <2>1. /\ queue[d] \in Seq(Events(d)) /\ d \in Devices /\ d # "stdin" /\ d # "touch"
        /\ d \notin Keyboards
        /\ queue \in [Devices \cup {"stdin"} -> Seq(Press \cup {"contact", "other", "typed"})]
    BY InputAssumption DEF Typed, Queues, Devices, Buttons
  <2>2. queue'[d] # queue[d]
    BY <2>1, PressesFinite
  <2>3. ASSUME NEW e \in Devices, Arrive(e) PROVE FALSE
    <3>1. PICK p \in Packets(e), typed \in BOOLEAN :
            queue' = [queue EXCEPT ![e] = @ \o p,
                                   !["stdin"] = IF typed THEN <<"typed">> ELSE @]
      BY <2>3 DEF Arrive
    <3>2. e = d /\ queue'[d] = queue[d] \o p
      BY <2>1, <2>2, <3>1
    <3>3. p \in Seq(Events(d))
      BY <3>2, PacketsTyped
    <3>4. QED  BY <2>1, <3>2, <3>3, PressesArrive
  <2>4. ASSUME NEW e \in Buttons, ReadButton(e)
        PROVE  pc' = "returned" /\ result' = Answer[Head(queue[d])]
    <3>1. e = d /\ queue'[d] = Tail(queue[d])
      BY <2>1, <2>2, <2>4 DEF ReadButton
    <3>2. queue[d] # <<>>
      BY <2>4, <3>1 DEF ReadButton, Typed, Queues, DarkDevices
    <3>3. Head(queue[d]) \in Press
      BY <2>1, <3>1, <3>2, PressesTail
    <3>4. QED  BY <2>4, <3>1, <3>3 DEF ReadButton, PressAnswered, Return
  <2>5. ASSUME NEW k \in ScannedKbds, ReadKbd(k) PROVE FALSE
    <3>1. numKbdFds \in Nat /\ numKbdFds <= Len(Kbds)
      BY InputAssumption DEF Typed, Places
    <3>2. ReadFrom(k) # d
      BY <2>1, <3>1, KbdRead
    <3>3. queue'[d] = queue[d]
      BY <2>1, <2>5, <3>2 DEF ReadKbd
    <3>4. QED  BY <2>2, <3>3
  <2>6. CASE ReadTouch
    BY <2>1, <2>2, <2>6 DEF ReadTouch
  <2>7. CASE UNCHANGED queue
    BY <2>2, <2>7
  <2>8. QED
    BY <2>3, <2>4, <2>5, <2>6, <2>7
       DEF Next, Program, Environment, Unplug, OpenButtons, PollError, AddKeyboard, EndScandir,
           Poll, Timeout, EndScan, LeaveDark, Resume
<1>2. QED  BY <1>1, Invariance, PTL DEF Spec, PressTaken
-----------------------------------------------------------------------------
\* After the dark the wait begins again with the screen lit and disabled still
\* set, but never without the event that ended the dark.
Lingering == pc = "poll" /\ disabled => Ready \cap DarkDevices # {}

\* What was ready before a packet arrives is ready after it.
LEMMA ArriveReady ==
  ASSUME Queues, NEW d \in Devices, Arrive(d)
  PROVE  Ready \cap DarkDevices \subseteq Ready' \cap DarkDevices
<1>1. PICK p \in Packets(d), typed \in BOOLEAN :
        queue' = [queue EXCEPT ![d] = @ \o p,
                               !["stdin"] = IF typed THEN <<"typed">> ELSE @]
  BY DEF Arrive
<1>2. p \in Seq(Events(d)) /\ p # <<>> /\ queue[d] \in Seq(Events(d)) /\ d # "stdin"
  BY PacketsTyped, InputAssumption DEF Queues, Devices, Buttons
<1>3. queue[d] \o p # <<>>
  BY <1>2
<1>4. /\ queue'[d] # <<>>
      /\ \A e \in Devices \ {d} : queue'[e] = queue[e]
  BY <1>1, <1>2, <1>3, InputAssumption DEF Queues, Devices, Buttons
<1>5. QED  BY <1>4 DEF Ready

\* Every step keeps that event: only a read takes it, and a read ends in a call
\* that returns or in the scan.
LEMMA LingeringKept ==
  ASSUME Typed, Lingering, [Next]_vars
  PROVE  Lingering'
<1>1. CASE OpenButtons \/ AddKeyboard \/ Poll \/ PollError
  BY <1>1 DEF OpenButtons, AddKeyboard, Poll, PollError, Lingering
<1>2. CASE EndScandir
  <2>1. pc = "scandir" /\ disabled' = disabled
    BY <1>2 DEF EndScandir, locals
  <2>2. ~ disabled'
    BY <2>1 DEF Typed, Saver, NeedsLight
  <2>3. QED  BY <2>2 DEF Lingering
<1>3. ASSUME NEW d \in Devices, Arrive(d) PROVE Lingering'
  <2>1. pc' = pc /\ disabled' = disabled
    BY <1>3 DEF Arrive, locals
  <2>2. Ready \cap DarkDevices \subseteq Ready' \cap DarkDevices
    BY <1>3, ArriveReady DEF Typed
  <2>3. DarkDevices' = DarkDevices
    BY DEF DarkDevices, Buttons
  <2>4. QED  BY <2>1, <2>2, <2>3 DEF Lingering
<1>4. CASE Timeout \/ EndScan
  <2>1. pc' = IF disabled' THEN "dark" ELSE "poll"
    BY <1>4 DEF Timeout, EndScan, locals
  <2>2. QED  BY <2>1 DEF Lingering
<1>5. CASE LeaveDark
  BY <1>5 DEF LeaveDark, Lingering, Ready, DarkDevices, Devices, Buttons
<1>6. CASE Resume
  BY <1>6 DEF Resume, Lingering
<1>7. CASE Handled
  BY <1>7 DEF Handled, Lingering
<1>8. CASE (\E d \in Devices : Unplug(d)) \/ UNCHANGED vars
  <2>1. UNCHANGED <<queue, pc, disabled>>
    BY <1>8 DEF Unplug, vars, locals
  <2>2. QED  BY <2>1 DEF Lingering, Ready, DarkDevices, Devices, Buttons
<1>9. QED
  BY <1>1, <1>2, <1>3, <1>4, <1>5, <1>6, <1>7, <1>8, ReadsHandled DEF Next, Program, Environment

\* What a light that has gone down says about the screen, until poll has failed:
\* the flags exclude each other, and a count is one of the wait it was begun in.
\* With no brightness there is only one light.
Follows ==
  /\ Brightness = 0 => backlight = Full
  /\ dimmed => ~ disabled /\ DimAfter <= counter
  /\ disabled /\ pc \notin {"dark", "returned"} => counter = 0
  /\ LightFollows

\* Every step keeps the light with the flags and the count.
LEMMA FollowsKept ==
  ASSUME Typed, Lingering, Follows, [Next]_vars
  PROVE  Follows'
<1> USE DEF Follows, LightFollows
<1>0. Brightness = 0 => Off = Full /\ \A c \in DimAfter .. OffAfter - 1 : Dimmed(c) = Full
  BY Lights DEF Off, Full
<1>1. /\ DimAfter \in Nat \ {0} /\ OffAfter = DimAfter + 5 /\ counter \in 0 .. OffAfter
      /\ errors \in Nat
      /\ errors = 0 => (~ NeedsLight => backlight = Full) /\ (pc = "returned" => backlight = Full)
      /\ pc = "dark" => disabled
  BY InputAssumption, Levels DEF Typed, Saver
<1>2. CASE OpenButtons \/ AddKeyboard \/ EndScandir \/ Poll
  <2>1. /\ UNCHANGED <<locals, backlight, errors>>
        /\ pc \notin {"dark", "returned"} /\ pc' \notin {"dark", "returned"}
    BY <1>2 DEF OpenButtons, AddKeyboard, EndScandir, Poll
  <2>2. QED  BY <2>1, Zenon DEF locals
<1>3. CASE (\E d \in Devices : Arrive(d) \/ Unplug(d)) \/ UNCHANGED vars
  <2>1. UNCHANGED <<locals, backlight, errors, pc>>
    BY <1>3 DEF Arrive, Unplug, vars
  <2>2. QED  BY <2>1, Zenon DEF locals
<1>4. CASE Timeout
  <2>1. /\ pc = "poll" /\ ~ disabled /\ counter' = counter + 1 /\ errors' = errors
        /\ pc' = IF disabled' THEN "dark" ELSE "poll"
    BY <1>4 DEF Timeout, Lingering, NextCount
  <2>2. CASE counter' < DimAfter /\ UNCHANGED <<dimmed, disabled, backlight>>
    BY <1>1, <2>1, <2>2
  <2>3. CASE /\ counter' \in DimAfter .. OffAfter - 1 /\ backlight' = Dimmed(counter')
             /\ dimmed' = TRUE /\ UNCHANGED disabled
    BY <1>0, <1>1, <2>1, <2>3
  <2>4. CASE counter' = OffAfter /\ backlight' = Off /\ dimmed' = FALSE /\ disabled' = TRUE
    BY <1>0, <2>1, <2>4
  <2>5. QED  BY <1>4, <2>2, <2>3, <2>4 DEF Timeout
<1>5. CASE PollError
  <2>1. UNCHANGED <<locals, backlight>> /\ pc' = "returned" /\ errors' # 0
    BY <1>1, <1>5 DEF PollError
  <2>2. QED  BY <2>1 DEF locals
<1>6. CASE EndScan
  <2>1. /\ UNCHANGED <<locals, backlight, errors>>
        /\ pc = "scan" /\ pc' = IF disabled THEN "dark" ELSE "poll"
    BY <1>6 DEF EndScan
  <2>2. QED  BY <1>1, <2>1 DEF locals
<1>7. CASE LeaveDark
  <2>1. /\ pc = "dark" /\ pc' = "poll" /\ counter' = 0 /\ backlight' = Full
        /\ UNCHANGED <<dimmed, disabled, errors>>
    BY <1>7 DEF LeaveDark, LightAfterDark
  <2>2. QED  BY <1>1, <2>1
<1>8. CASE Resume
  <2>1. /\ pc = "returned" /\ pc' = "poll" /\ counter' = 0 /\ ~ dimmed' /\ ~ disabled'
        /\ UNCHANGED <<backlight, errors>>
    BY <1>8 DEF Resume
  <2>2. QED  BY <1>1, <2>1
<1>9. CASE Handled
  <2>1. pc = "scan" /\ errors' = errors /\ pc' \in {"scan", "returned"}
    BY <1>9 DEF Handled
  <2>2. CASE UNCHANGED <<pc, backlight, locals>>
    BY <2>1, <2>2 DEF locals
  <2>3. CASE Wake /\ NeedsLight
    BY <2>1, <2>3 DEF Wake
  <2>4. CASE Wake /\ ~ NeedsLight
    BY <1>1, <2>1, <2>4 DEF Wake, NeedsLight, locals
  <2>5. QED  BY <1>9, <2>2, <2>3, <2>4 DEF Handled
<1>10. QED
  BY <1>2, <1>3, <1>4, <1>5, <1>6, <1>7, <1>8, <1>9, ReadsHandled DEF Next, Program, Environment

\* The light is the one the locals of INPUT_Wait say (input.c), computed as
\* screen.c does, for every brightness: only the wait without a timeout turns it
\* off, and an event that is no press leaves it full.
THEOREM LightFollowed == Spec => []LightFollows
<1>1. Init => Lingering /\ Follows
  BY DEF Init, Lingering, Follows, LightFollows
<1>2. Typed /\ Lingering /\ Follows /\ [Next]_vars => Lingering' /\ Follows'
  BY LingeringKept, FollowsKept
<1>3. QED  BY <1>1, <1>2, Invariance, PTL DEF Spec, Follows

\* The light as ScreenSaver sees it.
Light == IF backlight = Full THEN "full" ELSE IF backlight = Off THEN "off" ELSE "dim"

\* What is applied is what ScreenSaver sets, if there is any brightness; if there
\* is none, neither changes anything.
LEMMA LightSet ==
  ASSUME Brightness = 0 => backlight = Full
  PROVE  /\ backlight' = Full => Light' = Screen!Set("full")
         /\ backlight' = Off => Light' = Screen!Set("off")
         /\ \A c \in DimAfter .. OffAfter - 1 :
              backlight' = Dimmed(c) => Light' \in {Screen!Set("dim"), Screen!Set("off")}
<1>1. Brightness = 0 => Off = Full
  BY Lights DEF Off, Full
<1>2. Brightness # 0 => Off # Full
  BY Lights
<1>3. ASSUME NEW level \in {"full", "dim", "off"}
      PROVE  Screen!Set(level) = IF Brightness # 0 THEN level ELSE "full"
  BY DEF Screen!Set
<1>4. Light' = IF backlight' = Full THEN "full" ELSE IF backlight' = Off THEN "off" ELSE "dim"
  BY DEF Light, Full, Off, Applied
<1>5. ASSUME NEW c \in DimAfter .. OffAfter - 1, backlight' = Dimmed(c)
      PROVE  Light' \in {Screen!Set("dim"), Screen!Set("off")}
  <2>1. /\ Brightness # 0 => Dimmed(c) # Full
        /\ Brightness = 0 => Dimmed(c) = Full
    BY Lights
  <2>2. QED  BY <1>3, <1>4, <1>5, <2>1
<1>6. QED  BY <1>1, <1>2, <1>3, <1>4, <1>5

\* A timeout ticks: it cannot come while the event that ended the dark is there.
LEMMA TimeoutTicks ==
  ASSUME Typed, Lingering, Follows, Timeout
  PROVE  Screen!Tick
<1>1. pc = "poll" /\ pc' \in {"poll", "dark"} /\ Ready = {} /\ errors' = errors
  BY DEF Timeout
<1>2. ~ disabled
  BY <1>1 DEF Lingering
<1>3. dimmed' \in BOOLEAN /\ disabled' \in BOOLEAN
  <2>1. Next
    BY DEF Next, Program
  <2>2. QED  BY <2>1, SaverFlagsKept, Zenon DEF Typed, SaverFlags
<1>4. pc' = IF disabled' THEN "dark" ELSE "poll"
  BY DEF Timeout
<1>5. counter' = counter + 1
  BY DEF Timeout, NextCount
<1>6. CASE counter' < DimAfter /\ UNCHANGED <<dimmed, disabled, backlight>>
  BY <1>1, <1>2, <1>3, <1>4, <1>5, <1>6 DEF Screen!Tick, Local
<1>7. CASE /\ counter' \in DimAfter .. OffAfter - 1 /\ dimmed' = TRUE /\ UNCHANGED disabled
           /\ backlight' = Dimmed(counter')
  <2>1. Light' \in {Screen!Set("dim"), Screen!Set("off")}
    BY <1>7, LightSet DEF Follows
  <2>2. QED  BY <1>1, <1>2, <1>3, <1>4, <1>5, <1>7, <2>1 DEF Screen!Tick, Local, Light
<1>8. CASE counter' = OffAfter /\ backlight' = Off /\ dimmed' = FALSE /\ disabled' = TRUE
  <2>1. pc' = "dark" /\ pc' # "returned" /\ Light' = Screen!Set("off")
    BY <1>4, <1>8, LightSet DEF Follows
  <2>2. QED  BY <1>1, <1>2, <1>5, <1>8, <2>1 DEF Screen!Tick, Local, Light
<1>9. QED  BY <1>6, <1>7, <1>8 DEF Timeout

\* A read is a press, or nothing that the screen saver sees.
LEMMA ReadPresses ==
  ASSUME Typed, Follows, Handled
  PROVE  Screen!Press \/ UNCHANGED Screen!vars
<1>1. pc = "scan" /\ errors' = errors
  BY DEF Handled
<1>2. CASE UNCHANGED <<pc, result, backlight, locals>>
  BY <1>1, <1>2 DEF Screen!vars, Local, locals
<1>3. CASE Wake /\ pc' = "returned"
  <2>1. NeedsLight => Light' = Screen!Set("full")
    BY <1>3, LightSet DEF Wake, Follows
  <2>2. ~ NeedsLight => Light' = Light
    BY <1>3 DEF Wake, Light, Full, Off, Applied
  <2>3. QED  BY <1>1, <1>3, <2>1, <2>2 DEF Wake, NeedsLight, Screen!Press, Screen!Reset, Local, Light
<1>4. CASE Wake /\ UNCHANGED <<pc, result>>
  <2>1. CASE NeedsLight
    <3>1. Light' = Screen!Set("full")
      BY <1>4, <2>1, LightSet DEF Wake, Follows
    <3>2. QED  BY <1>1, <1>4, <2>1, <3>1 DEF Wake, Screen!Press, Screen!Reset, Local, Light
  <2>2. CASE ~ NeedsLight
    BY <1>1, <1>4, <2>2 DEF Wake, Screen!vars, Local, locals
  <2>3. QED  BY <2>1, <2>2
<1>5. QED  BY <1>2, <1>3, <1>4 DEF Handled

\* Every step is a step of ScreenSaver or leaves the screen saver alone.
LEMMA ScreenStep ==
  ASSUME Typed, Lingering, Follows, [Next]_vars
  PROVE  [Screen!Next]_(Screen!vars)
<1>1. CASE OpenButtons \/ AddKeyboard \/ EndScandir \/ Poll
  <2>1. /\ UNCHANGED <<locals, backlight, errors>>
        /\ pc \notin {"dark", "returned"} /\ pc' \notin {"dark", "returned"}
    BY <1>1 DEF OpenButtons, AddKeyboard, EndScandir, Poll
  <2>2. QED  BY <2>1 DEF Screen!vars, Local, locals
<1>2. CASE (\E d \in Devices : Arrive(d) \/ Unplug(d)) \/ UNCHANGED vars
  <2>1. UNCHANGED <<locals, backlight, errors, pc>>
    BY <1>2 DEF Arrive, Unplug, vars
  <2>2. QED  BY <2>1 DEF Screen!vars, Local, locals
<1>3. CASE Timeout
  BY <1>3, TimeoutTicks DEF Screen!Next
<1>4. CASE PollError
  <2>1. Screen!Fail
    BY <1>4 DEF PollError, Screen!Fail, Screen!Reset, Local
  <2>2. QED  BY <2>1 DEF Screen!Next
<1>5. CASE EndScan
  <2>1. /\ pc = "scan" /\ pc' = IF disabled THEN "dark" ELSE "poll"
        /\ UNCHANGED <<locals, backlight, errors>>
    BY <1>5 DEF EndScan
  <2>2. CASE disabled
    BY <2>1, <2>2 DEF Screen!Next, Screen!Back, Local, locals
  <2>3. CASE ~ disabled
    BY <2>1, <2>3 DEF Screen!vars, Local, locals
  <2>4. QED  BY <2>2, <2>3
<1>6. CASE LeaveDark
  <2>1. Light' = Screen!Set("full")
    BY <1>6, LightSet DEF LeaveDark, LightAfterDark, Follows
  <2>2. Screen!Leave
    BY <1>6, <2>1 DEF LeaveDark, Screen!Leave, Local, Light
  <2>3. QED  BY <2>2 DEF Screen!Next
<1>7. CASE Resume
  BY <1>7 DEF Resume, Screen!vars, Local
<1>8. CASE Handled
  BY <1>8, ReadPresses DEF Screen!Next
<1>9. QED
  BY <1>1, <1>2, <1>3, <1>4, <1>5, <1>6, <1>7, <1>8, ReadsHandled DEF Next, Program, Environment

\* ScreenSaverSpec: INPUT_Wait (input.c) implements ScreenSaver for every list of
\* keyboards, every moment at which an event arrives and every number of them.
THEOREM ScreenSaved == Spec => ScreenSaverSpec
<1>1. Init => Screen!Init
  BY DEF Init, Screen!Init, Local
<1>2. Init => Lingering /\ Follows
  BY DEF Init, Lingering, Follows, LightFollows
<1>3. Typed /\ Lingering /\ Follows /\ [Next]_vars => Lingering' /\ Follows'
  BY LingeringKept, FollowsKept
<1>4. Typed /\ Lingering /\ Follows /\ [Next]_vars => [Screen!Next]_(Screen!vars)
  BY ScreenStep
<1>5. QED  BY <1>1, <1>2, <1>3, <1>4, Invariance, PTL DEF Spec, ScreenSaverSpec, Screen!Spec
=============================================================================
