------------------------------ MODULE FileEdits ------------------------------
(***************************************************************************)
(* Two sessions edit one file.  What each of them claims is found by       *)
(* comparing the definitions in its version with those of the base         *)
(* (FILE_WRITE); when the second one merges, the three versions are merged *)
(* definition by definition, or else byte by byte (MERGE, PRE_SUBMIT).     *)
(*                                                                         *)
(* A file is its import lines, its definitions in order, the size of       *)
(* whatever else it holds, and is UTF-8 or not.  A definition has a name,  *)
(* a text, the comment beside it, which is outside its span, and the       *)
(* definitions inside it, which the queries of the parser capture too.     *)
(***************************************************************************)
EXTENDS Naturals, SequencesExt

CONSTANTS
    Edits,       \* what a behaviour starts from: [base, head, overlay, known]
    Size,        \* the length of each text
    NoComment

VARIABLES
    base, head, overlay,
    known,       \* is the file in a language that the parser knows?
    outcome      \* <<>>, then <<the analysis>>

vars == <<base, head, overlay, known, outcome>>

Nothing == [imports |-> <<>>, defs |-> <<>>, other |-> 0, utf8 |-> TRUE]
Nowhere == [name |-> "", text |-> "", comment |-> NoComment, inside |-> <<>>]

Init ==
    /\ \E e \in Edits : base = e.base /\ head = e.head /\ overlay = e.overlay /\ known = e.known
    /\ outcome = <<>>

-----------------------------------------------------------------------------
\* The parser

\* A definition comes before the ones inside it.
SymbolsIn(file) ==
    FlattenSeq([i \in DOMAIN file.defs |-> <<file.defs[i]>> \o file.defs[i].inside])

Named(file, n) == SelectSeq(SymbolsIn(file), LAMBDA d : d.name = n)
NamesIn(file) == {d.name : d \in ToSet(SymbolsIn(file))}

\* The text of a symbol's span.
Body(d) == <<d.text, d.inside>>

-----------------------------------------------------------------------------
\* detect_symbol_changes_diffed

\* Of several definitions of one name, the first counts on both sides.
First(file, n) == Body(Head(Named(file, n)))

\* Mutant: a definition that is removed is not claimed.
Change_kept(old, new, n) ==
    IF n \notin NamesIn(old) THEN "added"
    ELSE IF n \in NamesIn(new) /\ First(old, n) # First(new, n) THEN "modified" ELSE "none"

Change(old, new, n) ==
    IF n \notin NamesIn(old) THEN "added"
    ELSE IF n \notin NamesIn(new) THEN "deleted"
    ELSE IF First(old, n) # First(new, n) THEN "modified" ELSE "none"

\* The changes that a write claims; a new file is compared with nothing.
Detected(old, new) ==
    IF ~known THEN {}
    ELSE {<<n, Change(old, new, n)>> : n \in NamesIn(old) \cup NamesIn(new)}
           \ (NamesIn(old) \X {"none"})

Claimed(old, new) == {c[1] : c \in Detected(old, new)}

-----------------------------------------------------------------------------
\* ast_merge

\* Mutant: comments are left where they are.
Version_bare(file, n) ==
    IF n \in NamesIn(file) THEN [Last(Named(file, n)) EXCEPT !.comment = NoComment]
    ELSE Nowhere

\* extract_spans puts the comment back; the map keeps the last of a name.
Version(file, n) == IF n \in NamesIn(file) THEN Last(Named(file, n)) ELSE Nowhere

Changes(b, x, n) == Version(x, n) # Version(b, n)

\* Two additions of a name never agree.
Agree(b, h, o, n) == n \in NamesIn(b) /\ Version(h, n) = Version(o, n)

Clashing(b, h, o) ==
    {n \in UNION {NamesIn(f) : f \in {b, h, o}} :
        Changes(b, h, n) /\ Changes(b, o, n) /\ ~Agree(b, h, o, n)}

\* The head's version stands in for a conflict, unless it removed the symbol.
Chosen(b, h, o, n) ==
    IF Changes(b, h, n) /\ (Version(h, n) # Nowhere \/ ~Changes(b, o, n))
      THEN Version(h, n) ELSE Version(o, n)

Distinct(seq) ==
    FoldLeft(LAMBDA kept, e : IF Contains(kept, e) THEN kept ELSE Append(kept, e), <<>>, seq)

NameOrder(b, h, o) ==
    LET all == SymbolsIn(b) \o SymbolsIn(h) \o SymbolsIn(o)
    IN  Distinct([i \in DOMAIN all |-> all[i].name])

\* Every symbol is written out by itself, also one inside another; the text
\* around symbols is left out.
Merged(b, h, o) ==
    LET order == NameOrder(b, h, o)
        versions == [i \in DOMAIN order |-> Chosen(b, h, o, order[i])]
    IN  [imports |-> Distinct(b.imports \o h.imports \o o.imports),
         defs |-> SelectSeq(versions, LAMBDA d : d # Nowhere),
         other |-> 0, utf8 |-> TRUE]

-----------------------------------------------------------------------------
\* analyze_file_conflict

\* infer_change_kind
Kind(b, x, n) ==
    IF n \notin NamesIn(b) THEN "added"
    ELSE IF n \notin NamesIn(x) THEN "deleted" ELSE "modified"

Conflict(found) == [conflicts |-> found, content |-> Nothing]
AutoMerge(content) == [conflicts |-> {}, content |-> content]

EntireFile == "<entire file>"

ByteLevel(b, h, o) ==
    IF h # b /\ o # b /\ h # o
      THEN Conflict({<<EntireFile, "modified", "modified">>})
      ELSE AutoMerge(IF o # b THEN o ELSE h)

SizeOf(d) == FoldLeft(LAMBDA n, e : n + Size[e.text], Size[d.text], d.inside)
Length(file) ==
    FoldLeft(LAMBDA n, d : n + SizeOf(d), file.other + Len(file.imports), file.defs)

Smaller(m, n) == IF m < n THEN m ELSE n

\* Four fifths of the smaller side.
TooShort(merged, h, o) == Length(merged) * 5 < Smaller(Length(h), Length(o)) * 4

AnalyzeFileConflict(b, h, o) ==
    IF ~known \/ ~(b.utf8 /\ h.utf8 /\ o.utf8) THEN ByteLevel(b, h, o)
    ELSE LET found == Clashing(b, h, o)
             merged == Merged(b, h, o)
         IN  IF found # {}
               THEN Conflict({<<n, Kind(b, o, n), Kind(b, h, n)>> : n \in found})
               ELSE IF TooShort(merged, h, o) THEN ByteLevel(b, h, o)
               ELSE AutoMerge(merged)

Analyze ==
    /\ outcome = <<>>
    /\ outcome' = <<AnalyzeFileConflict(base, head, overlay)>>
    /\ UNCHANGED <<base, head, overlay, known>>

Next == Analyze

Spec == Init /\ [][Next]_vars

-----------------------------------------------------------------------------
\* build_conflict_detail: what the payload of a conflict says of a version.

Shown(file, n) == IF n \in NamesIn(file) THEN First(file, n) ELSE <<>>

\* build_symbol_version
ShownChange(b, x, n) ==
    IF Shown(x, n) = <<>> THEN "deleted" ELSE IF Shown(b, n) = <<>> THEN "added" ELSE "modified"

\* describe_change: nothing that the payload shows tells the two apart.
NoVisibleChange(b, x, n) ==
    ShownChange(b, x, n) = "modified" /\ Shown(b, n) = Shown(x, n)

-----------------------------------------------------------------------------
(***************************************************************************)
(* Properties                                                              *)
(***************************************************************************)
Analysis == outcome[1]
Done == outcome # <<>>
Versions == {base, head, overlay}
InConflict == {c[1] : c \in Analysis.conflicts} \ {EntireFile}

\* A name that each version defines at most once and with the same comment.
IsPlain(n) ==
    /\ \A f \in Versions : Len(Named(f, n)) <= 1
    /\ \A f, g \in Versions : n \in NamesIn(f) \cap NamesIn(g) =>
          Version(f, n).comment = Version(g, n).comment

\* Sessions whose claims are apart merge without a conflict on a symbol, but
\* for one that a file defines twice or whose comment changed, which the
\* claims do not cover (detect_symbol_changes_diffed, ast_merge).
ClaimsApartMergeApart ==
    Done => \A n \in InConflict :
        IsPlain(n) => n \in Claimed(base, head) \cap Claimed(base, overlay)

\* A file of single definitions side by side and nothing else.
IsFlat(file) ==
    /\ file.utf8 /\ file.other = 0
    /\ \A d \in ToSet(file.defs) : d.inside = <<>> /\ Len(Named(file, d.name)) = 1

\* A definition as the side that changed it left it.
Expected(n) == IF Named(head, n) # Named(base, n) THEN Named(head, n) ELSE Named(overlay, n)

\* A merge of flat files has every definition as the side that changed it left
\* it, once, comment included, in the order of the base; it has all imports of
\* both sides (ast_merge).
MergeIsThreeWay ==
    Done /\ known /\ Analysis.conflicts = {} /\ (\A f \in Versions : IsFlat(f)) =>
        LET out == Analysis.content.defs
            kept == SelectSeq(base.defs, LAMBDA d : d.name \in NamesIn(Analysis.content))
        IN  /\ \A n \in UNION {NamesIn(f) : f \in Versions} :
                  SelectSeq(out, LAMBDA d : d.name = n) = Expected(n)
            /\ \A i \in DOMAIN kept : out[i].name = kept[i].name
            /\ UNION {ToSet(f.imports) : f \in Versions} \subseteq ToSet(Analysis.content.imports)

\* Whichever session merges first, the same symbols conflict, or the merged
\* file has the same definitions (analyze_file_conflict).
OrderDoesNotMatter ==
    Done =>
        LET swapped == AnalyzeFileConflict(base, overlay, head) IN
        /\ {c[1] : c \in swapped.conflicts} = {c[1] : c \in Analysis.conflicts}
        /\ ToSet(SymbolsIn(swapped.content)) = ToSet(SymbolsIn(Analysis.content))

\* The payload of a conflict says of each side what the analysis says, and
\* shows a change of every symbol, but for one that a file defines twice or
\* whose comment changed (build_conflict_detail, infer_change_kind).
DetailFits ==
    Done => \A c \in Analysis.conflicts : c[1] # EntireFile =>
        /\ ShownChange(base, overlay, c[1]) = c[2] /\ ShownChange(base, head, c[1]) = c[3]
        /\ IsPlain(c[1]) => \A x \in {head, overlay} : ~NoVisibleChange(base, x, c[1])

\* An automatic merge yields "proper merged content that combines
\* non-overlapping symbol changes from both sides": what each version defines
\* at most once is in the merged file at most once (analyze_file_conflict).
DefinedOnce ==
    Done /\ Analysis.conflicts = {} =>
        \A n \in NamesIn(Analysis.content) :
            (\A f \in Versions : Len(Named(f, n)) <= 1) => Len(Named(Analysis.content, n)) = 1
=============================================================================
