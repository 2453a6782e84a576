---------------------------- MODULE ConfigMerge -----------------------------
(***************************************************************************)
(* The configure phase of a kernel build (src/src/kernel/config.rs and     *)
(* verify_config of src/src/kernel/aml.rs).                                *)
(*                                                                         *)
(* The fragments are copied into the kernel tree, merged one after another *)
(* over the architecture's defaults (the last line about a symbol wins),   *)
(* and Kconfig resolves the result: it drops what a dependency forbids and *)
(* turns on what an enabled symbol selects, without a word.  The fragments *)
(* are then read a second time, from where they came from, and checked     *)
(* against the resolved .config; so is the policy no fragment can waive.   *)
(*                                                                         *)
(* A fragment is the sequence of its lines; a line is what it asks of one  *)
(* symbol.  Kconfig is a record of facts about the symbols, chosen         *)
(* initially.                                                              *)
(***************************************************************************)
EXTENDS Naturals, Sequences, SequencesExt

CONSTANTS
    Symbols,    \* Kconfig symbols
    Strings,    \* the ones whose value is a string, not a tristate
    Lockdown,   \* symbol -> value it must resolve to (LOCKDOWN)
    Required,   \* symbol -> value it must resolve to, for the AML (REQUIRED)
    Readers,    \* must not be in the resolved .config (MEMORY_READERS)
    Loaders,    \* must not resolve y or m (FORBIDDEN)
    ModuleSig, SigKey, SigAll,  \* the symbols of module signing
    Worlds,     \* Kconfig facts to choose from
    Texts,      \* for each fragment, the texts to choose from
    Edited,     \* the fragments someone edits
    MaxEdits    \* bound on the edits while the phase runs

\* What Kconfig can store; "unset" covers a not-set comment and no line at all,
\* "string" a non-empty string.
Values == {"y", "m", "string", "empty", "unset"}

\* Merge order: required, hardening, confidential, and the caller's extra
\* fragment (the empty text when none was passed).
Fragments == 1 .. 4
\* "on": CONFIG_X=y or =m; "off": =n or `is not set`; "forced": the marker
\* `is forced on`; "string", "empty": any other value; "ineffective": a near
\* miss in spelling or layout.
Kinds == {"on", "off", "string", "empty", "forced", "ineffective"}
Line == [kind : Kinds, symbol : Symbols]

ASSUME ConfigAssumption ==
    /\ Strings \cup Readers \cup Loaders \subseteq Symbols
    /\ {ModuleSig, SigKey, SigAll} \subseteq Symbols
    /\ DOMAIN Lockdown \cup DOMAIN Required \subseteq Symbols
    /\ \A s \in DOMAIN Lockdown : Lockdown[s] \in Values
    /\ \A s \in DOMAIN Required : Required[s] \in Values
    /\ \A f \in Fragments : Texts[f] \subseteq Seq(Line)
    /\ Edited \subseteq Fragments
    /\ MaxEdits \in Nat

\* A string symbol does not default to a tristate.
ASSUME KconfigAssumption ==
    \A w \in Worlds : /\ w.default \in [Symbols -> Values]
                      /\ \A s \in Strings : w.default[s] \notin {"y", "m"}

VARIABLES
    kconfig,   \* facts about the symbols of this kernel
    disk,      \* the fragments where the caller keeps them
    staged,    \* the copies made so far under .fragments
    config,    \* the .config Kconfig resolved
    read,      \* the fragments read back for the check
    verdict,   \* how the phase ended
    edits
vars == <<kconfig, disk, staged, config, read, verdict, edits>>

-----------------------------------------------------------------------------
(* Kconfig and merge_config.sh: external programs. *)

\* merge_config.sh: the last line about a symbol, markers being comments;
\* mod2yesconfig turns every m into y.
Merged(lines, s) ==
    LET last == SelectLastInSeq(lines, LAMBDA l : l.symbol = s /\ l.kind # "forced")
    IN IF last = 0 THEN "silent"
       ELSE CASE lines[last].kind = "on" -> "y"
              [] lines[last].kind \in {"off", "ineffective"} -> "unset"
              [] OTHER -> lines[last].kind

\* The value olddefconfig gives s when nothing selects it.
Preferred(w, lines, s) ==
    LET asked == Merged(lines, s)
    IN IF \/ s \in w.promptless
          \/ asked = "silent"
          \/ (s \in Strings) # (asked \in {"string", "empty"})
       THEN w.default[s] ELSE asked

Selected(w, values, s) ==
    \E t \in Symbols : <<t, s>> \in w.selects /\ values[t] = "y"

\* What make olddefconfig resolves the merged lines to.  A symbol nothing
\* selects and that needs nothing has its preferred value.
Resolutions(w, lines) ==
    LET preferred == [s \in Symbols |-> Preferred(w, lines, s)]
        bound == {p[2] : p \in w.selects} \cup {p[1] : p \in w.needs}
        Unmet(values, s) == \E t \in Symbols : <<s, t>> \in w.needs /\ values[t] # "y"
        With(f) == [s \in Symbols |-> IF s \in bound THEN f[s] ELSE preferred[s]]
    IN {values \in {With(f) : f \in [bound -> Values]} :
           \A s \in bound :
              values[s] = CASE Selected(w, values, s) -> "y"
                            [] Unmet(values, s)       -> "unset"
                            [] OTHER                  -> preferred[s]}

-----------------------------------------------------------------------------
(* The check of the fragments' requests, line by line. *)

Unscanned == [effective |-> TRUE,
              requested |-> [s \in Symbols |-> "none"],
              submitted |-> [s \in Symbols |-> "none"],
              onPins    |-> {},
              forced    |-> {}]

\* Mutants: a string request erases the boolean one; a marker counts only
\* after its off request.
ScanStringErases(acc, line) ==
    LET s == line.symbol IN
    CASE line.kind = "ineffective" -> [acc EXCEPT !.effective = FALSE]
      [] line.kind = "on"     -> [acc EXCEPT !.requested[s] = "on", !.submitted[s] = "on",
                                             !.onPins = @ \cup {s}]
      [] line.kind = "off"    -> [acc EXCEPT !.requested[s] = "off", !.submitted[s] = "off"]
      [] line.kind = "forced" -> [acc EXCEPT !.forced = @ \cup {s}]
      [] OTHER                -> [acc EXCEPT !.requested[s] = "none", !.submitted[s] = "scalar"]
ScanMarkerAfterOff(acc, line) ==
    LET s == line.symbol IN
    CASE line.kind = "ineffective" -> [acc EXCEPT !.effective = FALSE]
      [] line.kind = "on"     -> [acc EXCEPT !.requested[s] = "on", !.submitted[s] = "on",
                                             !.onPins = @ \cup {s}]
      [] line.kind = "off"    -> [acc EXCEPT !.requested[s] = "off", !.submitted[s] = "off"]
      [] line.kind = "forced" -> IF acc.requested[s] = "off"
                                 THEN [acc EXCEPT !.forced = @ \cup {s}] ELSE acc
      [] OTHER                -> [acc EXCEPT !.submitted[s] = "scalar"]

\* A string request is submitted but does not erase an earlier boolean one; a
\* forced marker is remembered aside and submits nothing.
Scan(acc, line) ==
    LET s == line.symbol IN
    CASE line.kind = "ineffective" -> [acc EXCEPT !.effective = FALSE]
      [] line.kind = "on"     -> [acc EXCEPT !.requested[s] = "on", !.submitted[s] = "on",
                                             !.onPins = @ \cup {s}]
      [] line.kind = "off"    -> [acc EXCEPT !.requested[s] = "off", !.submitted[s] = "off"]
      [] line.kind = "forced" -> [acc EXCEPT !.forced = @ \cup {s}]
      [] OTHER                -> [acc EXCEPT !.submitted[s] = "scalar"]

\* The marker counts wherever it stands.
Requests(acc) ==
    [s \in Symbols |-> IF s \in acc.forced THEN "forced" ELSE acc.requested[s]]

Matches(request, value) ==
    CASE request \in {"on", "forced"} -> value = "y"
      [] request = "off"              -> value = "unset"
      [] OTHER                        -> TRUE

\* Mutant: any boolean off request will do, a string line after it included.
UnpairedEver(acc) == {s \in acc.forced : acc.requested[s] # "off"}

\* A forced symbol needs an off request that is the last one submitted.
Unpaired(acc) == {s \in acc.forced : acc.submitted[s] # "off"}

\* check_fragment_options
CheckFragments(lines, values) ==
    LET acc == FoldLeft(Scan, Unscanned, lines)
        requests == Requests(acc)
    IN CASE ~acc.effective                    -> "ineffective"
         [] acc.forced \cap acc.onPins # {}   -> "pin conflict"
         [] Unpaired(acc) # {}                -> "unpaired"
         [] \E s \in Symbols : ~Matches(requests[s], values[s]) -> "mismatch"
         [] OTHER                             -> "honoured"

\* aml::verify_config
AmlHolds(values) ==
    /\ \A s \in DOMAIN Required : values[s] = Required[s]
    /\ \A s \in Loaders : values[s] \notin {"y", "m"}

\* check_builder_invariants and check_lockdown
PolicyHolds(values) ==
    /\ values[ModuleSig] = "y" => values[SigKey] = "empty"
    /\ values[SigAll] # "y"
    /\ \A s \in DOMAIN Lockdown : values[s] = Lockdown[s]
    /\ \A s \in Readers : values[s] = "unset"
    /\ AmlHolds(values)

Judgement(lines, values) ==
    LET checked == CheckFragments(lines, values)
    IN IF checked # "honoured" THEN checked
       ELSE IF PolicyHolds(values) THEN "accepted" ELSE "policy"
-----------------------------------------------------------------------------
NoConfig == [s \in Symbols |-> "unset"]

Init ==
    /\ kconfig \in Worlds
    /\ disk \in Texts[1] \X Texts[2] \X Texts[3] \X Texts[4]
    /\ staged = <<>>
    /\ config = NoConfig
    /\ read = <<>>
    /\ verdict = "staging"
    /\ edits = 0

\* Copy the next fragment into .fragments.
StageFragment ==
    /\ verdict = "staging"
    /\ Len(staged) < Len(disk)
    /\ staged' = Append(staged, disk[Len(staged) + 1])
    /\ UNCHANGED <<kconfig, disk, config, read, verdict, edits>>

\* The nspawn script merges the copies and resolves; the copies are removed.
Configure ==
    /\ verdict = "staging"
    /\ Len(staged) = Len(disk)
    /\ config' \in Resolutions(kconfig, FlattenSeq(staged))
    /\ verdict' = "checking"
    /\ UNCHANGED <<kconfig, disk, staged, read, edits>>

\* A copy, the script or the removal of the copies fails.
ConfigureFails ==
    /\ verdict = "staging"
    /\ verdict' = "failed"
    /\ UNCHANGED <<kconfig, disk, staged, config, read, edits>>

\* Read the next fragment from where the caller keeps it.
ReadFragment ==
    /\ verdict = "checking"
    /\ Len(read) < Len(disk)
    /\ read' = Append(read, disk[Len(read) + 1])
    /\ UNCHANGED <<kconfig, disk, staged, config, verdict, edits>>

Judge ==
    /\ verdict = "checking"
    /\ Len(read) = Len(disk)
    /\ verdict' = Judgement(FlattenSeq(read), config)
    /\ UNCHANGED <<kconfig, disk, staged, config, read, edits>>

\* Someone saves another text over a fragment meanwhile.
Edit(f) ==
    /\ verdict \in {"staging", "checking"}
    /\ edits < MaxEdits
    /\ \E text \in Texts[f] \ {disk[f]} : disk' = [disk EXCEPT ![f] = text]
    /\ edits' = edits + 1
    /\ UNCHANGED <<kconfig, staged, config, read, verdict>>

Next ==
    \/ StageFragment
    \/ Configure
    \/ ConfigureFails
    \/ ReadFragment
    \/ Judge
    \/ \E f \in Edited : Edit(f)

Spec == Init /\ [][Next]_vars
-----------------------------------------------------------------------------
(***************************************************************************)
(* An accepted .config honours the last boolean request about every symbol *)
(* in the fragments as they were checked, whatever string lines came after *)
(* it: on resolves y, off resolves off unless some fragment carries the    *)
(* forced marker for the symbol (verify_fragment_options).                 *)
(***************************************************************************)
RequestsAreHonoured ==
    verdict = "accepted" =>
        LET lines == FlattenSeq(read) IN
        \A i \in DOMAIN lines :
            LET s == lines[i].symbol
                last == \A j \in i + 1 .. Len(lines) :
                            lines[j].symbol = s => lines[j].kind \notin {"on", "off"}
                marked == \E j \in DOMAIN lines : lines[j] = [kind |-> "forced", symbol |-> s]
            IN /\ lines[i].kind = "on" /\ last => config[s] = "y"
               /\ lines[i].kind = "off" /\ last /\ ~marked => config[s] = "unset"

(***************************************************************************)
(* A forced marker is accepted only when Kconfig itself keeps the symbol   *)
(* on: it is selected by an enabled symbol, or has no prompt and defaults  *)
(* to y.  Neither a pin nor a plain default may stand in for the forcing.  *)
(* Stated for fragments nobody edited between the copy and the check: the  *)
(* check reads the originals, the merge read the copies.                   *)
(***************************************************************************)
ForcingIsReal ==
    verdict = "accepted" /\ read = staged =>
        \A s \in Symbols :
            (\E i \in DOMAIN FlattenSeq(read) :
                FlattenSeq(read)[i] = [kind |-> "forced", symbol |-> s])
            => \/ Selected(kconfig, config, s)
               \/ s \in kconfig.promptless /\ kconfig.default[s] = "y"

(***************************************************************************)
(* The verdict does not depend on where the forced markers stand: moving   *)
(* them all in front of the other lines gives the same one ("Assertion     *)
(* metadata is orthogonal to fragment merge order").                       *)
(***************************************************************************)
MarkersFirst(lines) ==
    LET only(marker) == FlattenSeq([i \in DOMAIN lines |->
                          IF (lines[i].kind = "forced") = marker THEN <<lines[i]>> ELSE <<>>])
    IN only(TRUE) \o only(FALSE)
MarkerPlaceIsFree ==
    verdict \notin {"staging", "checking", "failed"} =>
        verdict = Judgement(MarkersFirst(FlattenSeq(read)), config)
=============================================================================
