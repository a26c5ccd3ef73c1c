------------------------------ MODULE MenuPath ------------------------------
(***************************************************************************)
(* What the menu system promises its user: the screen shows the last frame *)
(* of a path of menus that starts at the main menu.  Moving changes the    *)
(* highlighted entry of the last frame only, a submenu entry adds a frame, *)
(* "Back" drops the last frame and shows the one below it exactly as it    *)
(* was left.  Menu.tla implements this with static menu objects, a stack   *)
(* of copies and a pointer.                                                *)
(***************************************************************************)
EXTENDS Integers

CONSTANTS
  Menus,     \* names of the menus
  Root,      \* the main menu
  NumItems,  \* NumItems[m]: number of entries of menu m
  Item       \* Item[m][i]: the submenu entry i of m opens, "back" or "leaf"

VARIABLES
  depth,     \* index of the frame on screen
  path       \* path[i]: the i-th frame, [menu, selection]

vars == <<depth, path>>

Frame(m, s) == [menu |-> m, selection |-> s]

Shown == path[depth]

Init ==
  /\ depth = 0
  /\ path = [i \in 0..0 |-> Frame(Root, 0)]

\* Highlight the entry above or below.
Move ==
  /\ \E s \in {Shown.selection - 1, Shown.selection + 1} :
       /\ s \in 0 .. NumItems[Shown.menu] - 1
       /\ path' = [path EXCEPT ![depth] = Frame(Shown.menu, s)]
  /\ UNCHANGED depth

\* Open the submenu of the highlighted entry, with any of its own entries
\* highlighted.
Enter ==
  LET c == Item[Shown.menu][Shown.selection] IN
  /\ c \in Menus
  /\ depth' = depth + 1
  /\ \E s \in 0 .. NumItems[c] - 1 :
       path' = [i \in 0 .. depth + 1 |->
                  IF i = depth + 1 THEN Frame(c, s) ELSE path[i]]

\* Choose the "Back" entry.
Leave ==
  /\ Item[Shown.menu][Shown.selection] = "back"
  /\ depth > 0
  /\ depth' = depth - 1
  /\ path' = [i \in 0 .. depth - 1 |-> path[i]]

Next == Move \/ Enter \/ Leave

Spec == Init /\ [][Next]_vars
=============================================================================
