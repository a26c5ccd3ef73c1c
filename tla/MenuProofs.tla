----------------------------- MODULE MenuProofs -----------------------------
(***************************************************************************)
(* Proofs about menu navigation, for every menu tree that fits the stack.  *)
(*                                                                         *)
(* The argument goes through the path on screen (PathFrame): each action   *)
(* of Menu.tla changes the path the way MenuPath.tla says, although it may *)
(* write a static object, a live slot, or the slot the screen shows.  What *)
(* makes this true is Aliasing: STATE_CurMenu never points into a slot     *)
(* other than the first free one, so the next push overwrites the menu on  *)
(* screen with itself.                                                     *)
(***************************************************************************)
EXTENDS Menu, TLAPS

\* A slot that is current is the first free one.
Aliasing == \A i \in Slots : curMenu = Slot(i) => i = menuStackIndex

\* The frames of the path are filled in, at the depth of their menu in the
\* tree, and their setup callbacks have run.
Live ==
  \A i \in 0 .. menuStackIndex :
    /\ PathFrame(i) \in Frames
    /\ Depth[PathFrame(i).menu] = i
    /\ {PathFrame(i).menu} \cap HasSetup \subseteq prepared

IInv == TypeOK /\ NoAbort /\ Aliasing /\ Live /\ Breadcrumbs
-----------------------------------------------------------------------------
\* The menu on screen is one of the frames, and its selection names an entry.
LEMMA CurFrame ==
  ASSUME IInv
  PROVE  /\ menuStackIndex \in 0 .. StackSize
         /\ Cur \in Frames
         /\ Cur.menu \in Menus
         /\ Cur.selection \in 0 .. NumItems[Cur.menu] - 1
         /\ Depth[Cur.menu] = menuStackIndex
         /\ Selected \in Menus \cup {"back", "leaf"}
         /\ Selected \in Menus => Depth[Selected] = menuStackIndex + 1
         /\ Selected = "back" => menuStackIndex > 0
<1> USE DEF IInv
<1>1. menuStackIndex \in 0 .. StackSize /\ PathFrame(menuStackIndex) = Cur
  BY DEF TypeOK, PathFrame
<1>2. Cur \in Frames /\ Depth[Cur.menu] = menuStackIndex
  BY <1>1, MenuTree DEF Live
<1>3. Cur.menu \in Menus /\ Cur.selection \in 0 .. NumItems[Cur.menu] - 1
  BY <1>2, MenuTree DEF Frames
<1>4. QED  BY <1>1, <1>2, <1>3, MenuTree DEF Selected

\* Moving the selection changes the last frame of the path, whichever object
\* it is kept in.
LEMMA MovePath ==
  ASSUME IInv, NEW s \in 0 .. NumItems[Cur.menu] - 1, MoveTo(s)
  PROVE  /\ TypeOK' /\ NoAbort' /\ Aliasing'
         /\ menuStackIndex' = menuStackIndex /\ prepared' = prepared
         /\ Cur' = Frame(Cur.menu, s)
         /\ \A i \in 0 .. menuStackIndex - 1 : PathFrame(i)' = PathFrame(i)
<1>1. Cur.menu \in Menus /\ s \in Nat /\ s < NumItems[Cur.menu]
  BY CurFrame, MenuTree
<1>2. Frame(Cur.menu, s) \in Frames
  BY <1>1 DEF Frame, Frames
<1>3. UNCHANGED <<menuStackIndex, curMenu, prepared, aborted>>
  BY DEF MoveTo
<1>4. CASE curMenu.seg = "data"
  <2>1. /\ selection' = [selection EXCEPT ![curMenu.menu] = s]
        /\ menuStack' = menuStack
    BY <1>4 DEF MoveTo
  <2>2. PICK m \in Menus : curMenu = Static(m) /\ Cur.menu = m
    BY <1>4 DEF IInv, TypeOK, Addresses, Static, Slot, Cur, Frame
  <2>3. TypeOK'
    BY <1>1, <1>3, <2>1, <2>2 DEF IInv, TypeOK, Static
  <2>4. Cur' = Frame(Cur.menu, s)
    BY <1>3, <2>1, <2>2 DEF IInv, TypeOK, Cur, Frame, Static
  <2>5. QED
    BY <1>3, <2>1, <2>3, <2>4 DEF IInv, TypeOK, NoAbort, Aliasing, PathFrame, Slots
<1>5. CASE curMenu.seg = "stack"
  <2>1. /\ menuStack' = [menuStack EXCEPT ![curMenu.slot] = Frame(Cur.menu, s)]
        /\ selection' = selection
    BY <1>5 DEF MoveTo
  <2>2. PICK k \in Slots : curMenu = Slot(k)
    BY <1>5 DEF IInv, TypeOK, Addresses, Static, Slot
  <2>3. k = menuStackIndex
    BY <2>2 DEF IInv, Aliasing
  <2>4. TypeOK'
    BY <1>2, <1>3, <2>1, <2>2 DEF IInv, TypeOK, Slot
  <2>5. Cur' = Frame(Cur.menu, s)
    BY <1>3, <2>1, <2>2 DEF IInv, TypeOK, Cur, Slot
  <2>6. \A i \in 0 .. menuStackIndex - 1 : PathFrame(i)' = PathFrame(i)
    BY <1>3, <2>1, <2>2, <2>3 DEF IInv, TypeOK, PathFrame, Slot, Slots
  <2>7. QED
    BY <1>3, <2>4, <2>5, <2>6 DEF IInv, NoAbort, Aliasing
<1>6. QED  BY <1>4, <1>5 DEF MoveTo

\* Opening a submenu never overflows the stack, and appends a frame.
LEMMA EnterPath ==
  ASSUME IInv, Enter
  PROVE  /\ TypeOK' /\ NoAbort' /\ Aliasing'
         /\ menuStackIndex' = menuStackIndex + 1
         /\ prepared' = Prepare(Selected)
         /\ Cur' = Frame(Selected, selection[Selected])
         /\ \A i \in 0 .. menuStackIndex : PathFrame(i)' = PathFrame(i)
<1>1. Selected \in Menus /\ GoToSubMenu(Selected)
  BY DEF Enter
<1>2. menuStackIndex \in Slots
  BY <1>1, CurFrame, MenuTree DEF Slots
<1>3. menuStackIndex < StackSize
  BY <1>2, MenuTree DEF Slots
<1>4. /\ menuStack' = [menuStack EXCEPT ![menuStackIndex] = Cur]
      /\ menuStackIndex' = menuStackIndex + 1
      /\ curMenu' = Static(Selected)
      /\ prepared' = Prepare(Selected)
      /\ selection' = selection
      /\ aborted' = aborted
  BY <1>1, <1>3 DEF GoToSubMenu, Pushed
<1>5. Cur' = Frame(Selected, selection[Selected])
  BY <1>4 DEF Cur, Static
<1>6. Aliasing'
  BY <1>4 DEF Aliasing, Static, Slot
<1>7. TypeOK'
  <2>1. menuStackIndex' \in 0 .. StackSize
    BY <1>2, <1>4, MenuTree DEF Slots
  <2>2. menuStack' \in [Slots -> Frames \cup {NullFrame}]
    BY <1>4, CurFrame DEF IInv, TypeOK
  <2>3. curMenu' \in Addresses
    BY <1>1, <1>4 DEF Addresses
  <2>4. prepared' \in SUBSET HasSetup
    BY <1>4 DEF IInv, TypeOK, Prepare
  <2>5. QED  BY <1>3, <1>4, <2>1, <2>2, <2>3, <2>4 DEF IInv, TypeOK
<1>8. \A i \in 0 .. menuStackIndex : PathFrame(i)' = PathFrame(i)
  BY <1>2, <1>4 DEF IInv, TypeOK, PathFrame, Slots
<1>9. QED  BY <1>4, <1>5, <1>6, <1>7, <1>8 DEF IInv, NoAbort

\* Going back never underflows the stack nor shows an empty slot, and drops
\* the last frame.
LEMMA LeavePath ==
  ASSUME IInv, Leave
  PROVE  /\ TypeOK' /\ NoAbort' /\ Aliasing'
         /\ menuStackIndex > 0 /\ menuStackIndex' = menuStackIndex - 1
         /\ prepared' = prepared
         /\ Cur' = PathFrame(menuStackIndex - 1)
         /\ \A i \in 0 .. menuStackIndex - 1 : PathFrame(i)' = PathFrame(i)
<1>1. Selected = "back" /\ GoBack
  BY DEF Leave
<1>2. menuStackIndex > 0 /\ menuStackIndex - 1 \in Slots
  BY <1>1, CurFrame, MenuTree DEF Slots
<1>3. menuStack[menuStackIndex - 1] \in Frames
  BY <1>2, CurFrame DEF IInv, Live, PathFrame
<1>4. menuStack[menuStackIndex - 1] # NullFrame
  BY <1>3, MenuTree DEF Frames, NullFrame, Frame
<1>5. /\ menuStackIndex' = menuStackIndex - 1
      /\ curMenu' = Slot(menuStackIndex - 1)
      /\ UNCHANGED <<selection, menuStack, prepared, aborted>>
  BY <1>1, <1>2, <1>4 DEF GoBack, IndexAfterBack
<1>6. Cur' = PathFrame(menuStackIndex - 1)
  BY <1>2, <1>5 DEF Cur, Slot, PathFrame, Slots
<1>7. Aliasing'
  BY <1>2, <1>5 DEF Aliasing, Slot
<1>8. TypeOK'
  <2>1. menuStackIndex' \in 0 .. StackSize
    BY <1>2, <1>5, CurFrame, MenuTree
  <2>2. QED  BY <1>2, <1>4, <1>5, <2>1 DEF IInv, TypeOK, Addresses
<1>9. \A i \in 0 .. menuStackIndex - 1 : PathFrame(i)' = PathFrame(i)
  BY <1>2, <1>5, <1>6 DEF PathFrame, Slots
<1>10. QED  BY <1>2, <1>5, <1>6, <1>7, <1>8, <1>9 DEF IInv, NoAbort
-----------------------------------------------------------------------------
\* The invariant holds when the main menu is first shown.
LEMMA InitInv == Init => IInv
<1> SUFFICES ASSUME Init PROVE IInv
  OBVIOUS
<1>1. Cur = Frame(Root, 0) /\ Frame(Root, 0) \in Frames
  BY MenuTree DEF Init, Cur, Static, Frame, Frames
<1>2. TypeOK
  <2>1. selection \in [Menus -> Nat] /\ \A m \in Menus : selection[m] < NumItems[m]
    BY MenuTree DEF Init
  <2>2. menuStack \in [Slots -> Frames \cup {NullFrame}]
    BY DEF Init
  <2>3. curMenu \in Addresses
    BY MenuTree DEF Init, Addresses
  <2>4. QED  BY <2>1, <2>2, <2>3, MenuTree DEF Init, TypeOK
<1>3. Aliasing
  BY DEF Init, Aliasing, Static, Slot
<1>4. Live
  BY <1>1, MenuTree DEF Init, Live, PathFrame, Frame
<1>5. Breadcrumbs
  BY <1>1 DEF Init, Breadcrumbs, PathFrame, Frame
<1>6. QED  BY <1>2, <1>3, <1>4, <1>5 DEF IInv, Init, NoAbort

\* Up and Down move within the entries of the menu on screen.
LEMMA UpDownMove ==
  ASSUME IInv, Up \/ Down
  PROVE  \E s \in {Cur.selection - 1, Cur.selection + 1} :
           s \in 0 .. NumItems[Cur.menu] - 1 /\ MoveTo(s)
<1>1. Cur.selection \in 0 .. NumItems[Cur.menu] - 1 /\ NumItems[Cur.menu] \in Nat
  BY CurFrame, MenuTree
<1>2. CASE Up
  BY <1>1, <1>2 DEF Up
<1>3. CASE Down
  BY <1>1, <1>3 DEF Down, LastItem
<1>4. QED  BY <1>2, <1>3

\* Every key press keeps the invariant.
LEMMA NextInv == IInv /\ [Next]_vars => IInv'
<1> SUFFICES ASSUME IInv, [Next]_vars PROVE IInv'
  OBVIOUS
<1> USE CurFrame
<1>1. CASE Up \/ Down
  <2>1. PICK s \in 0 .. NumItems[Cur.menu] - 1 : MoveTo(s)
    BY <1>1, UpDownMove
  <2>2. Frame(Cur.menu, s) \in Frames
    BY MenuTree DEF Frame, Frames
  <2>3. Live'
    BY <2>1, <2>2, MovePath DEF IInv, Live, PathFrame, Frame
  <2>4. Breadcrumbs'
    <3>1. PathFrame(menuStackIndex)'.menu = PathFrame(menuStackIndex).menu
      BY <2>1, MovePath DEF PathFrame, Frame
    <3>2. \A i \in 0 .. menuStackIndex : PathFrame(i)'.menu = PathFrame(i).menu
      BY <2>1, <3>1, MovePath
    <3>3. QED  BY <2>1, <3>2, MovePath DEF IInv, Breadcrumbs
  <2>5. QED  BY <2>1, <2>3, <2>4, MovePath DEF IInv
<1>2. CASE Enter
  <2>1. Selected \in Menus
    BY <1>2 DEF Enter
  <2>2. Frame(Selected, selection[Selected]) \in Frames
    BY <2>1 DEF IInv, TypeOK, Frame, Frames
  <2>3. \A i : i = menuStackIndex + 1 =>
               PathFrame(i)' = Frame(Selected, selection[Selected])
    BY <1>2, EnterPath DEF PathFrame
  <2>4. Live'
    <3>1. \A i : i = menuStackIndex + 1 => PathFrame(i)'.menu = Selected
      BY <2>3 DEF Frame
    <3>2. prepared' = prepared \cup ({Selected} \cap HasSetup)
      BY <1>2, EnterPath DEF Prepare
    <3>3. SUFFICES ASSUME NEW i \in 0 .. menuStackIndex + 1
                   PROVE  /\ PathFrame(i)' \in Frames
                          /\ Depth[PathFrame(i)'.menu] = i
                          /\ {PathFrame(i)'.menu} \cap HasSetup \subseteq prepared'
      BY <1>2, EnterPath DEF Live, Frames
    <3>4. CASE i \in 0 .. menuStackIndex
      BY <1>2, <3>2, <3>4, EnterPath DEF IInv, Live
    <3>5. CASE i = menuStackIndex + 1
      BY <2>1, <2>2, <2>3, <3>1, <3>2, <3>5
    <3>6. QED  BY <3>4, <3>5
  <2>5. Breadcrumbs'
    <3>1. \A i : i = menuStackIndex + 1 => PathFrame(i)'.menu = Selected
      BY <2>3 DEF Frame
    <3>2. PathFrame(menuStackIndex) = Cur
      BY DEF PathFrame
    <3>3. PathFrame(0)'.menu = Root
      BY <1>2, EnterPath DEF IInv, Breadcrumbs
    <3>4. \A i \in 0 .. menuStackIndex :
            Item[PathFrame(i)'.menu][PathFrame(i)'.selection]
              = PathFrame(i + 1)'.menu
      <4> TAKE i \in 0 .. menuStackIndex
      <4>1. CASE i = menuStackIndex
        BY <1>2, <3>1, <3>2, <4>1, EnterPath DEF Selected
      <4>2. CASE i \in 0 .. menuStackIndex - 1
        BY <1>2, <4>2, EnterPath DEF IInv, Breadcrumbs
      <4>3. QED  BY <4>1, <4>2
    <3>5. QED  BY <1>2, <3>3, <3>4, EnterPath DEF Breadcrumbs
  <2>6. QED  BY <1>2, <2>4, <2>5, EnterPath DEF IInv
<1>3. CASE Leave
  <2>1. Live'
    BY <1>3, LeavePath DEF IInv, Live
  <2>2. Breadcrumbs'
    BY <1>3, LeavePath DEF IInv, Breadcrumbs
  <2>3. QED  BY <1>3, <2>1, <2>2, LeavePath DEF IInv
<1>4. CASE UNCHANGED vars
  BY <1>4 DEF vars, IInv, TypeOK, NoAbort, Aliasing, Live, Breadcrumbs, PathFrame, Cur
<1>5. QED  BY <1>1, <1>2, <1>3, <1>4 DEF Next

\* The strengthened invariant holds in every state of every menu tree that
\* satisfies MenuTree.
THEOREM Invariance == Spec => []IInv
<1>1. QED  BY InitInv, NextInv, PTL DEF Spec

\* Type correctness: every selection stays an index of its menu's items, in
\* the static objects and in the slots alike.
THEOREM TypeCorrect == Spec => []TypeOK
<1>1. QED  BY Invariance, PTL DEF IInv

\* No assert of menu.c fails: the stack of menus neither overflows nor
\* underflows, and no empty slot becomes the current menu.
THEOREM NeverAborts == Spec => []NoAbort
<1>1. QED  BY Invariance, PTL DEF IInv

\* The live slots and the current menu always form a path of the menu tree.
THEOREM PathKept == Spec => []Breadcrumbs
<1>1. QED  BY Invariance, PTL DEF IInv

\* A menu is drawn only after the setup callback that fills in its names.
THEOREM NamesReady == Spec => []DrawnPrepared
<1>1. IInv => DrawnPrepared
  BY CurFrame DEF IInv, Live, PathFrame, DrawnPrepared
<1>2. QED  BY <1>1, Invariance, PTL
-----------------------------------------------------------------------------
\* The initial states are initial states of MenuPath.
LEMMA PathInit == Init => Path!Init
<1> SUFFICES ASSUME Init PROVE Path!Init
  OBVIOUS
<1>1. menuStackIndex = 0 /\ Cur = Path!Frame(Root, 0)
  BY MenuTree DEF Init, Cur, Static, Frame, Path!Frame
<1>2. PathBar = [i \in 0 .. 0 |-> Path!Frame(Root, 0)]
  BY <1>1 DEF PathBar, PathFrame
<1>3. QED  BY <1>1, <1>2 DEF Path!Init

\* Every step is a step of MenuPath or leaves the path alone.
LEMMA PathStep == IInv /\ [Next]_vars => [Path!Next]_(Path!vars)
<1> SUFFICES ASSUME IInv, [Next]_vars PROVE [Path!Next]_(Path!vars)
  OBVIOUS
<1> USE CurFrame
<1>1. Path!Shown = Cur
  BY DEF Path!Shown, PathBar, PathFrame
<1>2. CASE Up \/ Down
  <2>1. PICK s \in {Cur.selection - 1, Cur.selection + 1} :
               s \in 0 .. NumItems[Cur.menu] - 1 /\ MoveTo(s)
    BY <1>2, UpDownMove
  <2>2. \A i \in 0 .. menuStackIndex :
          PathFrame(i)' = IF i = menuStackIndex THEN Frame(Cur.menu, s)
                                                ELSE PathFrame(i)
    BY <2>1, MovePath DEF PathFrame
  <2>3. PathBar' = [PathBar EXCEPT ![menuStackIndex] = Frame(Cur.menu, s)]
    BY <2>1, <2>2, MovePath DEF PathBar
  <2>4. Path!Move
    BY <1>1, <2>1, <2>3, MovePath DEF Path!Move, Path!Frame, Frame
  <2>5. QED  BY <2>4 DEF Path!Next
<1>3. CASE Enter
  <2>1. Selected \in Menus
    BY <1>3 DEF Enter
  <2>2. selection[Selected] \in 0 .. NumItems[Selected] - 1
    BY <2>1, MenuTree DEF IInv, TypeOK
  <2>3. PathBar' = [i \in 0 .. menuStackIndex + 1 |->
                      IF i = menuStackIndex + 1
                        THEN Frame(Selected, selection[Selected]) ELSE PathBar[i]]
    BY <1>3, EnterPath DEF PathBar, PathFrame
  <2>4. Path!Enter
    BY <1>1, <1>3, <2>1, <2>2, <2>3, EnterPath
       DEF Path!Enter, Path!Frame, Frame, Selected
  <2>5. QED  BY <2>4 DEF Path!Next
<1>4. CASE Leave
  <2>1. PathBar' = [i \in 0 .. menuStackIndex - 1 |-> PathBar[i]]
    BY <1>4, LeavePath DEF PathBar
  <2>2. Path!Leave
    BY <1>1, <1>4, <2>1, LeavePath DEF Path!Leave, Leave, Selected
  <2>3. QED  BY <2>2 DEF Path!Next
<1>5. CASE UNCHANGED vars
  BY <1>5 DEF vars, Path!vars, PathBar, PathFrame, Cur
<1>6. QED  BY <1>2, <1>3, <1>4, <1>5 DEF Next

\* The static objects, the array of copies and the pointer implement the path
\* of menus the user sees: "Back" shows the parent menu as it was left.
THEOREM Refinement == Spec => PathSpec
<1>1. QED  BY PathInit, PathStep, Invariance, PTL DEF Spec, PathSpec, Path!Spec
=============================================================================
