---------------------------- MODULE SessionGraph ----------------------------
(***************************************************************************)
(* The symbols of one session as changes to a table it shares: looked up   *)
(* as removed, modified, added, then shared.  The table is replaced when   *)
(* the repository is indexed again, and a graph read back from MessagePack *)
(* has none.                                                               *)
(*                                                                         *)
(* The name and the file of a symbol go with its id, and what else can     *)
(* change of it is its text.  The parser gives every symbol a new id.      *)
(* Call edges are kept in the same way and left out.                       *)
(***************************************************************************)
CONSTANTS
    Id, Name, File, Text,
    NameOf, FileOf,    \* of each id
    SharedIds,         \* the ids the shared table may hold
    None               \* no symbol

VARIABLES
    shared,      \* the text of each symbol in the shared table
    modified_symbols, added_symbols,
    removed_symbols,
    removed_symbol_names,   \* the ids whose name is kept
    last,        \* what the session last made of each symbol (history)
    unseen       \* the ids no parse has given out (history)

vars == <<shared, modified_symbols, added_symbols, removed_symbols, removed_symbol_names, last,
          unseen>>
delta == <<modified_symbols, added_symbols, removed_symbols, removed_symbol_names>>

NoSymbols == [i \in Id |-> None]
Untouched == "untouched"
Gone == "gone"         \* a symbol of the table that the session removed

TypeOK ==
    /\ {shared, modified_symbols, added_symbols} \subseteq [Id -> Text \cup {None}]
    /\ UNION {removed_symbols, removed_symbol_names, unseen} \subseteq Id

Init ==
    /\ shared \in {t \in [Id -> Text \cup {None}] : \A i \in Id \ SharedIds : t[i] = None}
    /\ modified_symbols = NoSymbols /\ added_symbols = NoSymbols
    /\ removed_symbols = {} /\ removed_symbol_names = {}
    /\ last = [i \in Id |-> Untouched] /\ unseen = Id \ SharedIds

In(t) == {i \in Id : t[i] # None}

\* The resolution order of a lookup.
get_symbol(i) ==
    IF i \in removed_symbols THEN None
    ELSE IF modified_symbols[i] # None THEN modified_symbols[i]
    ELSE IF added_symbols[i] # None THEN added_symbols[i]
    ELSE shared[i]

\* The names the conflict detector asks for.
changed_symbol_names ==
    {NameOf[i] : i \in In(added_symbols) \cup In(modified_symbols)
                       \cup (removed_symbols \cap (In(shared) \cup removed_symbol_names))}

\* The names resume locks, and other sessions are told of.
changed_symbols_for_file(f) ==
    {NameOf[i] : i \in {j \in In(added_symbols) \cup In(modified_symbols) : FileOf[j] = f}}

\* Putting the symbols of a set into a table.
With(t, new) == [i \in Id |-> IF new[i] # None THEN new[i] ELSE t[i]]

Without(t, ids) == [i \in Id |-> IF i \in ids THEN None ELSE t[i]]

\* The name of a symbol that goes is kept if it can still be found.
NamesKept(theirs) ==
    removed_symbol_names \cup (theirs \cap (In(modified_symbols) \cup In(shared)))

\* remove_symbol for a set of ids: what the session added is just dropped.
Remove(ids) ==
    LET theirs == ids \ In(added_symbols) IN
    /\ added_symbols' = Without(added_symbols, ids)
    /\ modified_symbols' = Without(modified_symbols, theirs)
    /\ removed_symbols' = removed_symbols \cup theirs
    /\ removed_symbol_names' = NamesKept(theirs)
    /\ last' = [i \in Id |-> IF i \notin ids THEN last[i]
                             ELSE IF i \in theirs THEN Gone ELSE Untouched]

\* Mutant: a symbol the session added is modified beside its entry.
IsTheirs_always(i) == TRUE

\* Not added in this session.
IsTheirs(i) == added_symbols[i] = None

\* modify_symbol and remove_symbol of a symbol that the session can see.
ModifySymbol(i, t) ==
    /\ get_symbol(i) # None
    /\ IF IsTheirs(i)
         THEN modified_symbols' = [modified_symbols EXCEPT ![i] = t] /\ UNCHANGED added_symbols
         ELSE added_symbols' = [added_symbols EXCEPT ![i] = t] /\ UNCHANGED modified_symbols
    /\ last' = [last EXCEPT ![i] = t]
    /\ UNCHANGED <<shared, removed_symbols, removed_symbol_names, unseen>>

RemoveSymbol(i) ==
    /\ get_symbol(i) # None
    /\ Remove({i})
    /\ UNCHANGED <<shared, unseen>>

\* A parse of a file yields new, a text for each of some fresh ids with names
\* of their own; base holds the symbols of the table in that file, or none.
Parse(new, base) ==
    LET named(n) == {i \in base : NameOf[i] = n}
        names == {NameOf[i] : i \in In(new)}
        added == {i \in In(new) : named(NameOf[i]) = {}}
        changed == {i \in In(new) \ added : \A j \in named(NameOf[i]) : shared[j] # new[i]}
        gone == {i \in base : NameOf[i] \notin names}
    IN
    /\ added_symbols' = With(added_symbols, Without(new, Id \ added))
    /\ modified_symbols' = Without(With(modified_symbols, Without(new, Id \ changed)), gone)
    /\ removed_symbols' = removed_symbols \cup gone
    /\ removed_symbol_names' = NamesKept(gone)
    /\ last' = [i \in Id |-> IF i \in added \cup changed THEN new[i]
                             ELSE IF i \in gone THEN Gone ELSE last[i]]
    /\ unseen' = unseen \ In(new)
    /\ UNCHANGED shared

Fresh(f) == {i \in unseen : FileOf[i] = f}

UpdateFromParse(f) ==
    \E found \in [Fresh(f) -> Text \cup {None}], base \in {{}, {i \in In(shared) : FileOf[i] = f}} :
        LET new == [i \in Id |-> IF i \in Fresh(f) THEN found[i] ELSE None] IN
        /\ \A i, j \in In(new) : NameOf[i] = NameOf[j] => i = j
        /\ Parse(new, base)

\* The file was deleted: the symbols of the session in it go.
RemoveSessionSymbolsForFile(f) ==
    /\ Remove({i \in In(added_symbols) \cup In(modified_symbols) : FileOf[i] = f})
    /\ UNCHANGED <<shared, unseen>>

\* to_msgpack and from_msgpack: everything but the table.
Reload ==
    /\ shared' = NoSymbols
    /\ UNCHANGED <<delta, last, unseen>>

\* The repository is indexed again.
SwapTable ==
    /\ \E i \in SharedIds, t \in Text \cup {None} : shared' = [shared EXCEPT ![i] = t]
    /\ In(shared) # {}
    /\ UNCHANGED <<delta, last, unseen>>

Next ==
    \/ \E i \in Id, t \in Text : ModifySymbol(i, t)
    \/ \E i \in Id : RemoveSymbol(i)
    \/ \E f \in File : UpdateFromParse(f) \/ RemoveSessionSymbolsForFile(f)
    \/ Reload \/ SwapTable

Spec == Init /\ [][Next]_vars

-----------------------------------------------------------------------------
\* A session sees each symbol as it last left it, and otherwise as the shared
\* table has it: the order of the four lookups never shows it an older state
\* (SessionGraph::get_symbol).
ViewIsLastChange ==
    \A i \in Id : get_symbol(i) = CASE last[i] = Untouched -> shared[i]
                                    [] last[i] = Gone -> None
                                    [] OTHER -> last[i]

\* The conflict detector hears of every symbol the session has changed, also
\* of removed ones whose table has gone (removed_symbol_names); for a symbol
\* that was not removed, its file's names hold it too.
ChangesAreNamed ==
    \A i \in Id : last[i] # Untouched =>
        /\ NameOf[i] \in changed_symbol_names
        /\ last[i] # Gone => NameOf[i] \in changed_symbols_for_file(FileOf[i])
=============================================================================
