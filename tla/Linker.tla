------------------------------- MODULE Linker -------------------------------
(***************************************************************************)
(* rs/lower/linker.rs: the code of several modules becomes one program.    *)
(* Labels get the name of their module, only functions that the program's  *)
(* main reaches are kept, and the routines that it reaches are added.      *)
(*                                                                         *)
(* A module is [name, program, tasm]; tasm is a sequence of lines as in    *)
(* TirLowering.  Text is what the linker sees: it finds a call by the line *)
(* it stands on and a function by its label.                               *)
(***************************************************************************)
EXTENDS RecursiveAssembly, TirLowering

CONSTANTS
  Flat,        (* module name -> its form in labels, "." made "_"          *)
  Endings      (* <<p, q>> where the part q of a label ends with the text p *)

IsLabel(line) == line[1] = "label"
LabelsAt(lines) == {k \in DOMAIN lines : IsLabel(lines[k])}
FirstLabel(lines) == Min(LabelsAt(lines) \cup {Len(lines) + 1})

-----------------------------------------------------------------------------
(* Names.                                                                  *)

\* A local name gets the module's; one that is marked is complete.
MangleLine(line, prefix) ==
    IF line[1] = "label" /\ Head(line[2]) = "" THEN Label(<<prefix>> \o Tail(line[2]))
    ELSE IF line[1] # "call" THEN line
    ELSE CASE Head(line[2]) = "@" -> Call(Tail(line[2]))
           [] Head(line[2]) = "" -> Call(<<prefix>> \o Tail(line[2]))
           [] OTHER -> line

\* mangle_labels: a program's lines before its first function are left out.
MangleLabels(tasm, prefix, program) ==
    LET from == IF program THEN FirstLabel(tasm) ELSE 1
    IN [k \in 1 .. Len(tasm) - from + 1 |-> MangleLine(tasm[k + from - 1], prefix)]

Mangled(module) == MangleLabels(module.tasm, Flat[module.name], module.program)

-----------------------------------------------------------------------------
(* What is reached.                                                        *)

\* A function is the lines from one label to the next.
FunctionsAt(lines, at) ==
    [n \in DOMAIN at |->
        [label |-> lines[at[n]][2],
         code |-> SubSeq(lines, at[n], IF n = Len(at) THEN Len(lines) ELSE at[n + 1] - 1)]]

Functions(lines) ==
    FunctionsAt(lines, SelectSeq([k \in DOMAIN lines |-> k], LAMBDA k : IsLabel(lines[k])))

CallsIn(code) == {code[k][2] : k \in {j \in DOMAIN code : code[j][1] = "call"}}

\* Of two functions with one label the later is looked into.
CallsOf(functions, label) ==
    LET found == {n \in DOMAIN functions : functions[n].label = label}
    IN IF found = {} THEN {} ELSE CallsIn(functions[Max(found)].code)

\* ends_with on the text of labels.
EndsWith(label, suffix) ==
    LET skip == Len(label) - Len(suffix) IN
    /\ skip >= 0
    /\ \A k \in 2 .. Len(suffix) : label[skip + k] = suffix[k]
    /\ \/ label[skip + 1] = suffix[1]
       \/ <<suffix[1], label[skip + 1]>> \in Endings

Suffix(target, n) == SubSeq(target, n + 1, Len(target))

\* resolve_target: the name itself, else without one prefix or more, exactly
\* or as the one ending of a label.
ResolveTarget(labels, target) ==
    LET ending(n) == {l \in labels : EndsWith(l, Suffix(target, n))}
        fits == {n \in 1 .. Len(target) - 1 :
                    Suffix(target, n) \in labels \/ Cardinality(ending(n)) = 1}
    IN IF target \in labels \/ fits = {} THEN target
       ELSE IF Suffix(target, Min(fits)) \in labels THEN Suffix(target, Min(fits))
       ELSE CHOOSE l \in ending(Min(fits)) : TRUE

\* Variant of Reached: what is called by what main calls is not looked at.
ReachedOnce(functions, entry) ==
    {entry} \cup {ResolveTarget({f.label : f \in ToSet(functions)}, t)
                    : t \in CallsOf(functions, entry)}

\* The search from the entry, breadth first.
Reached(functions, entry) ==
    LET labels == {f.label : f \in ToSet(functions)}
        called(l) == {ResolveTarget(labels, t) : t \in CallsOf(functions, l)}
        wider(reached, f) == reached \cup UNION {called(l) : l \in reached}
    IN FoldLeft(wider, {entry}, functions)

-----------------------------------------------------------------------------
(* The program.                                                            *)

AllLines(modules) == FlattenSeq([k \in DOMAIN modules |-> Mangled(modules[k])])

\* The program's lines before its first function.
Prelude(module) ==
    MangleLabels(SubSeq(module.tasm, 1, FirstLabel(module.tasm) - 1),
                 Flat[module.name], FALSE)

\* The routines reached, each once; those for claims need the verifier.
Routines(reached) ==
    LET claims == SelectSeq(SetToSeq(DOMAIN Pinned), LAMBDA e : e \in reached)
    IN (IF DigestEntry \in reached THEN DigestAssembly ELSE <<>>)
       \o FlattenSeq([k \in DOMAIN claims |-> FixedClaimAssembly(claims[k])])
       \o (IF claims # <<>> \/ VerifyEntry \in reached THEN VerifyAssembly ELSE <<>>)

LinkProgram(program, functions, reached) ==
    (IF DigestEntry \in reached THEN Prologue ELSE <<>>)
    \o Prelude(program)
    \o FlattenSeq([n \in DOMAIN functions |->
           IF functions[n].label \in reached THEN functions[n].code ELSE <<>>])
    \o Routines(reached)

\* link: without a program all definitions are kept.
Link(modules) ==
    LET programs == SelectSeq(modules, LAMBDA m : m.program)
        functions == Functions(AllLines(modules))
    IN IF programs = <<>>
       THEN FlattenSeq([k \in DOMAIN modules |-> Mangled(modules[k])])
       ELSE LinkProgram(Head(programs), functions,
                        Reached(functions, <<Flat[Head(programs).name], "main">>))

\* build_tasm: every module is checked, then lowered, then they are linked.
Refused(sources) == \E k \in DOMAIN sources : ~Accepted(sources[k].ops)

BuildTasm(sources) ==
    Link([k \in DOMAIN sources |->
            [name |-> sources[k].name, program |-> sources[k].program,
             tasm |-> LowerModule(sources[k].ops)]])

=============================================================================
