-------------------------------- MODULE Menu --------------------------------
(***************************************************************************)
(* Menu navigation: menu.c, and INPUT_DoAction of input.c.                 *)
(*                                                                         *)
(* Every menu is a menu_t object with static storage.  Opening a submenu   *)
(* copies the whole menu_t that STATE_CurMenu points to into the next slot *)
(* of menuStack; going back makes STATE_CurMenu point INTO that slot.  So  *)
(* the menu on screen is either a static object or a slot of the very      *)
(* array the next push writes to, and a selection is remembered in         *)
(* whichever of the two objects was current when it changed.               *)
(*                                                                         *)
(* Abstracted: names, headers and drawing.  An entry whose action is       *)
(* neither MENU_GoToSubMenu nor MENU_GoBack is a "leaf": its handler leaves*)
(* the state of this module alone.  No menu of the repository has a        *)
(* cleanup callback, so the call in MENU_GoBack never happens.             *)
(***************************************************************************)
EXTENDS Integers

CONSTANTS
  Menus,      \* the menu_t objects
  Root,       \* mainMenu
  NumItems,   \* NumItems[m]: menu_t.numItems
  Item,       \* Item[m][i]: the submenu item i opens, "back" or "leaf"
  HasSetup,   \* the menus whose setup callback is not NULL
  Depth,      \* Depth[m]: number of submenu entries that lead from Root to m
  StackSize   \* number of slots of menuStack

VARIABLES
  selection,       \* selection[m]: menu_t.selection of the static object m
  menuStack,       \* the slots: copies [menu, selection]
  menuStackIndex,
  curMenu,         \* STATE_CurMenu: the address of a static object or a slot
  prepared,        \* menus whose setup callback has filled in the item names
  aborted          \* an assert failed

vars == <<selection, menuStack, menuStackIndex, curMenu, prepared, aborted>>

\* The menus form a tree that fits the stack, and only a submenu has "Back".
ASSUME MenuTree ==
  /\ StackSize \in Nat
  /\ Root \in Menus
  /\ {"back", "leaf", "null"} \cap Menus = {}
  /\ HasSetup \subseteq Menus
  /\ NumItems \in [Menus -> Nat \ {0}]
  /\ Depth \in [Menus -> 0 .. StackSize]
  /\ Depth[Root] = 0
  /\ \A m \in Menus :
       /\ Item[m] \in [0 .. NumItems[m] - 1 -> Menus \cup {"back", "leaf"}]
       /\ \A i \in 0 .. NumItems[m] - 1 :
            /\ Item[m][i] \in Menus => Depth[Item[m][i]] = Depth[m] + 1
            /\ Item[m][i] = "back" => Depth[m] > 0
-----------------------------------------------------------------------------
Slots == 0 .. StackSize - 1

Frame(m, s) == [menu |-> m, selection |-> s]

\* A slot that was never written: zeroed static storage, items == NULL.
NullFrame == Frame("null", 0)

\* Addresses.  The field that an address does not use is fixed.
Static(m) == [seg |-> "data", menu |-> m, slot |-> 0]
Slot(i) == [seg |-> "stack", menu |-> Root, slot |-> i]

\* *STATE_CurMenu
Cur ==
  IF curMenu.seg = "data"
    THEN Frame(curMenu.menu, selection[curMenu.menu])
    ELSE menuStack[curMenu.slot]

Selected == Item[Cur.menu][Cur.selection]

\* The last entry of the menu on screen.
LastItem_OffByOne == NumItems[Cur.menu]
LastItem == NumItems[Cur.menu] - 1
-----------------------------------------------------------------------------
\* MENU_Init has nothing to model; main() shows the main menu, whose setup
\* runs if it has one, without a push.
Init ==
  /\ selection = [m \in Menus |-> 0]
  /\ menuStack = [i \in Slots |-> NullFrame]
  /\ menuStackIndex = 0
  /\ curMenu = Static(Root)
  /\ prepared = {Root} \cap HasSetup
  /\ aborted = FALSE

\* STATE_CurMenu->selection = s
MoveTo(s) ==
  /\ \/ /\ curMenu.seg = "data"
        /\ selection' = [selection EXCEPT ![curMenu.menu] = s]
        /\ UNCHANGED menuStack
     \/ /\ curMenu.seg = "stack"
        /\ menuStack' = [menuStack EXCEPT ![curMenu.slot] = Frame(Cur.menu, s)]
        /\ UNCHANGED selection
  /\ UNCHANGED <<menuStackIndex, curMenu, prepared, aborted>>

\* INPUT_DoAction, cases INPUT_TYPE_UP and INPUT_TYPE_DOWN
Up == Cur.selection > 0 /\ MoveTo(Cur.selection - 1)
Down == Cur.selection < LastItem /\ MoveTo(Cur.selection + 1)

\* What a push stores.
Pushed_StaticObject == Frame(Cur.menu, selection[Cur.menu])
Pushed == Cur

\* The menus whose setup has run once c is shown.
Prepare_OldMenu(c) == prepared \cup ({Cur.menu} \cap HasSetup)
Prepare(c) == prepared \cup ({c} \cap HasSetup)

\* A failed assert ends the program.
Abort ==
  /\ aborted' = TRUE
  /\ UNCHANGED <<selection, menuStack, menuStackIndex, curMenu, prepared>>

\* _MENU_GoToSubMenu(c, true), and the redraw of STATE_Run.
GoToSubMenu(c) ==
  IF menuStackIndex < StackSize
    THEN /\ menuStack' = [menuStack EXCEPT ![menuStackIndex] = Pushed]
         /\ menuStackIndex' = menuStackIndex + 1
         /\ curMenu' = Static(c)
         /\ prepared' = Prepare(c)
         /\ UNCHANGED <<selection, aborted>>
    ELSE Abort

\* The index MENU_GoBack leaves behind, and the slot it makes current.
IndexAfterBack_NotDecremented == menuStackIndex
IndexAfterBack == menuStackIndex - 1

\* MENU_GoBack, and the redraw of STATE_Run: MENU_Update asserts that the
\* menu it draws has items.
GoBack ==
  IF menuStackIndex > 0 /\ menuStack[menuStackIndex - 1] # NullFrame
    THEN /\ menuStackIndex' = IndexAfterBack
         /\ curMenu' = Slot(menuStackIndex - 1)
         /\ UNCHANGED <<selection, menuStack, prepared, aborted>>
    ELSE Abort

\* INPUT_DoAction, case INPUT_TYPE_SELECT
Enter == Selected \in Menus /\ GoToSubMenu(Selected)
Leave == Selected = "back" /\ GoBack

Next == ~aborted /\ (Up \/ Down \/ Enter \/ Leave)

Spec == Init /\ [][Next]_vars
-----------------------------------------------------------------------------
\* The frames a slot may hold, and the addresses STATE_CurMenu may take.
Frames == {f \in [menu : Menus, selection : Nat] : f.selection < NumItems[f.menu]}
Addresses == {Static(m) : m \in Menus} \cup {Slot(i) : i \in Slots}

\* The types of the variables; a selection is an index of its menu's items
\* (MENU_GetCurrentSelected indexes the array without a check).
TypeOK ==
  /\ selection \in [Menus -> Nat]
  /\ \A m \in Menus : selection[m] < NumItems[m]
  /\ menuStack \in [Slots -> Frames \cup {NullFrame}]
  /\ menuStackIndex \in 0 .. StackSize
  /\ curMenu \in Addresses
  /\ prepared \in SUBSET HasSetup
  /\ aborted \in BOOLEAN

\* The asserts of menu.c never fail: no sequence of key presses makes the
\* stack overflow or underflow, or makes a slot current that was never filled.
NoAbort == ~aborted

\* The frames of the path on screen: the live slots, then the current menu.
PathFrame(i) == IF i = menuStackIndex THEN Cur ELSE menuStack[i]

\* The live slots and the current menu are a path of the menu tree: each frame
\* still has the entry highlighted that opened the next one.  Both the aliasing
\* of slot and current menu and a stale slot would break it.
Breadcrumbs ==
  /\ PathFrame(0).menu = Root
  /\ \A i \in 0 .. menuStackIndex - 1 :
       Item[PathFrame(i).menu][PathFrame(i).selection] = PathFrame(i + 1).menu

\* A menu whose item names are filled in by its setup callback is never drawn
\* before that callback has run (its names are NULL until then).
DrawnPrepared == {Cur.menu} \cap HasSetup \subseteq prepared

\* The path the slots and the current menu stand for.
PathBar == [i \in 0 .. menuStackIndex |-> PathFrame(i)]
Path == INSTANCE MenuPath WITH depth <- menuStackIndex, path <- PathBar

\* The static objects, the slots and the pointer implement MenuPath: "Back"
\* shows the parent menu with the very selection it was left with.
PathSpec == Path!Spec
=============================================================================
