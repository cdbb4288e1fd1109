----------------------------- MODULE Inventory ------------------------------
(***************************************************************************)
(* problems/rpg_inventory.c: items in a hash table with chains, their      *)
(* stats in the halves of a byte, the player's health and magicka in a     *)
(* byte each.  Calls come in any order and with any name.                  *)
(***************************************************************************)
EXTENDS Integers, SequencesExt

CONSTANTS
  Names,     \* names callers use, from DOMAIN Hash
  Kinds,     \* kinds of items they add, from DOMAIN Stats
  MaxItems   \* bound: items added

\* hash_function for the capacity of 10: three of main's names collide.
Hash == [Sword |-> 7, Dagger |-> 6, Dawnbreaker |-> 6, Potion |-> 3, Meat |-> 6]
CAPACITY == 10

\* Power and durability of a weapon, health and magicka of a consumable.
Stats == [AXE |-> <<15, 8>>, BOW |-> <<4, 7>>, DAGGER |-> <<2, 4>>,
          SWORD |-> <<10, 15>>, POTION |-> <<8, 4>>, SNACK |-> <<4, 2>>]

\* What a project that gives the constants values has to see to.
ItemsAssumption ==
  Names \subseteq DOMAIN Hash /\ Kinds \subseteq DOMAIN Stats /\ MaxItems \in Nat

VARIABLES
  phase,         \* running, returned, exited, or crashed on a NULL pointer
  items,         \* the chain of each index
  items_stored,
  player_health, player_magicka,
  acquired,      \* history: the name and kind of every item, in order
  uses           \* history: consumables used

vars == <<phase, items, items_stored, player_health, player_magicka, acquired, uses>>

Init ==
  /\ phase = "running"
  /\ items = [k \in 0 .. CAPACITY - 1 |-> <<>>] /\ items_stored = 0
  /\ player_health = 20 /\ player_magicka = 10
  /\ acquired = <<>> /\ uses = 0

Running == phase = "running"

End(how) ==
  /\ phase' = how
  /\ UNCHANGED <<items, items_stored, player_health, player_magicka, acquired, uses>>

\* Both stats share a byte; the variant forgets to shift the left one.
Unshifted(s) == s[1] + s[2]
ITEM_D_COMBINE(s) == ((s[1] * 16) % 256) + (s[2] % 16)
ITEM_D_EXTRACT_LEFT(b) == b \div 16
ITEM_D_EXTRACT_RIGHT(b) == b % 16

Item(n, kind) ==
  [name |-> n, state |-> {"added"}, detail |-> ITEM_D_COMBINE(Stats[kind])]

\* The item goes to the end of its chain; the variant puts it first.
HeadOfChain(chain, item) == <<item>> \o chain
EndOfChain(chain, item) == Append(chain, item)

\* add_weapon and add_consumable
AddItem(n, kind) ==
  /\ Running /\ Len(acquired) < MaxItems
  /\ items' = [items EXCEPT ![Hash[n]] = EndOfChain(@, Item(n, kind))]
  /\ items_stored' = (items_stored + 1) % 256
  /\ acquired' = Append(acquired, <<n, kind>>)
  /\ UNCHANGED <<phase, player_health, player_magicka, uses>>

\* The place of the first item of that name, 0 if there is none.
find_item(n) == SelectInSeq(items[Hash[n]], LAMBDA i : i.name = n)
Found(n) == items[Hash[n]][find_item(n)]

\* An empty index ends the program; in a chain without the name find_item
\* returns NULL, which its callers dereference.
NotFound(n) ==
  \/ items[Hash[n]] = <<>> /\ End("exited")
  \/ items[Hash[n]] # <<>> /\ find_item(n) = 0 /\ End("crashed")

\* Equipping an item that is equipped has no effect.
equip_weapon(n) ==
  /\ Running
  /\ \/ NotFound(n)
     \/ /\ find_item(n) # 0
        /\ items' = [items EXCEPT ![Hash[n]][find_item(n)].state = @ \cup {"equipped"}]
        /\ UNCHANGED <<phase, items_stored, player_health, player_magicka, acquired, uses>>

\* Magicka must suffice; the variant asks for some to be left.
AnyMagicka(cost) == player_magicka > 0
Affordable(cost) == player_magicka >= cost

\* The item stays in its chain.
Consume(health, cost) ==
  /\ player_health' = (player_health + health) % 256
  /\ player_magicka' = (player_magicka - cost) % 256
  /\ items_stored' = (items_stored - 1) % 256
  /\ uses' = uses + 1
  /\ UNCHANGED <<phase, items, acquired>>

\* Without enough magicka the call has no effect.
use_consumable(n) ==
  /\ Running
  /\ \/ NotFound(n)
     \/ /\ find_item(n) # 0
        /\ LET cost == ITEM_D_EXTRACT_RIGHT(Found(n).detail)
           IN  /\ Affordable(cost)
               /\ Consume(ITEM_D_EXTRACT_LEFT(Found(n).detail), cost)

\* main ends with clean_mem, which frees what it finds in the chains.
clean_mem == Running /\ End("returned")

Terminated == ~Running /\ UNCHANGED vars

Next ==
  \/ \E n \in Names : \/ \E kind \in Kinds : AddItem(n, kind)
                      \/ equip_weapon(n) \/ use_consumable(n)
  \/ clean_mem \/ Terminated

Spec == Init /\ [][Next]_vars
-----------------------------------------------------------------------------
TypeOK ==
  /\ phase \in {"running", "returned", "exited", "crashed"}
  /\ \A k \in DOMAIN items : \A i \in ToSet(items[k]) :
       i.state \subseteq {"added", "equipped"} /\ i.detail \in 0 .. 255
  /\ items_stored \in 0 .. 255
  /\ player_health \in 0 .. 255 /\ player_magicka \in 0 .. 255

\* The items added, the j-th of them the latest, that went where it went.
Before(j) == {m \in 1 .. j : Hash[acquired[m][1]] = Hash[acquired[j][1]]}

(* Whatever names collide, a chain holds what was added to it and no more, in
   order and with the stats of its kind, for good.                          *)
ChainsKeep ==
  /\ \A k \in DOMAIN items :
       Len(items[k]) = Cardinality({j \in DOMAIN acquired : Hash[acquired[j][1]] = k})
  /\ \A j \in DOMAIN acquired :
       LET i == items[Hash[acquired[j][1]]][Cardinality(Before(j))] IN
         /\ i.name = acquired[j][1]
         /\ <<ITEM_D_EXTRACT_LEFT(i.detail), ITEM_D_EXTRACT_RIGHT(i.detail)>>
              = Stats[acquired[j][2]]

(* Of several items of one name only the first can be equipped.             *)
OneEquipped ==
  \A k \in DOMAIN items : \A i, j \in DOMAIN items[k] :
    i < j /\ items[k][i].name = items[k][j].name => "equipped" \notin items[k][j].state

(* items_stored counts down with every use while the item stays: it is what
   was added less what was used, and wraps when one item is used often.     *)
CountedOff == items_stored = (Len(acquired) - uses) % 256

(* Magicka is never overdrawn and pays for every use: however often an item
   is used again, uses come to an end, and health, which rises by no more
   than two for each point of magicka, never wraps.                         *)
UsesPaidFor ==
  /\ player_magicka <= 10 /\ 2 * uses <= 10 - player_magicka
  /\ player_health >= 20 /\ player_health - 20 <= 2 * (10 - player_magicka)
=============================================================================
