----------------------------- MODULE BehaviorConfig -----------------------------
(***************************************************************************)
(* The routing settings in config.json.  The setup commands of __init__.py    *)
(* load them, edit, merge with what the file holds by then and replace the    *)
(* file; wsp_core/config.py reads the same file with rules of its own at the  *)
(* start of every request.  Both move a file they refuse aside.  There is no  *)
(* lock: the file may be another one at each look.                           *)
(*                                                                         *)
(* Settings that every layer treats alike (fallback, extraction order,        *)
(* auto_allow, threshold) are left out; the sections the commands do not      *)
(* judge are one value, other.                                               *)
(***************************************************************************)
EXTENDS Sublists, SequencesExt

CONSTANTS
    Operators,    \* setup commands in progress
    Catalog,      \* DEFAULT_PROVIDER_PRIORITY
    OldOrder,     \* PRE_5_DEFAULT_PROVIDER_PRIORITY
    FreeOrder,    \* SELF_HOSTED_SEARCH_PROVIDER_IDS
    HandWritten,  \* files an editor may leave
    MaxCommands, MaxHandEdits,   \* bounds
    NoName

VARIABLES
    disk,      \* config.json
    operator,  \* [Operators -> [step, data]]: a setup command
    loading,   \* the version a request has read and refused, or Missing
    edits      \* bounds: [commands, hand]

configvars == <<disk, operator, loading, edits>>

Names == Range(Catalog)

Defaults == [kind |-> "config", by |-> "cli", profile |-> "standard", default |-> NoName, enabled |-> TRUE,
             order |-> "measured", priority |-> Catalog, disabled |-> {}, other |-> "none"]
Missing  == [Defaults EXCEPT !.kind = "none"]
Garbled  == [Defaults EXCEPT !.kind = "garbled", !.by = "hand"]

\* What the file may be: what neither reader can take for settings at all is "garbled", and a
\* section only requests refuse is other = "refused".
ListedNames == Names \cup Range(OldOrder) \cup Range(FreeOrder) \cup UNION {Range(f.priority) : f \in HandWritten}
ConfigFiles ==
    [kind : {"none", "config", "garbled"}, by : {"cli", "hand"}, profile : {"standard", "self_hosted"},
     default : Names \cup {NoName}, enabled : BOOLEAN, order : {"measured", "custom"},
     priority : Seq(ListedNames), disabled : SUBSET Names, other : {"none", "fine", "refused"}]

ASSUME ConfigAssumption ==
    /\ Catalog \in Seq(ListedNames) /\ Catalog # <<>>
    /\ OldOrder \in Seq(ListedNames) /\ FreeOrder \in Seq(ListedNames)
    /\ HandWritten \subseteq ConfigFiles /\ \A f \in HandWritten : f.by = "hand"

RoutingView(f) == [f EXCEPT !.by = "cli", !.other = "none"]   \* what routing sees

WithDefaults(s) == s \o Without(Catalog, Range(s))
Modern(s)       == IF IsPrefix(OldOrder, s) THEN Catalog \o Without(s, Names) ELSE s

\* The profile is the only durable setting of a self-hosted install; it decides the order.
ProfileEffects(c) == IF c.profile = "self_hosted" THEN [c EXCEPT !.priority = FreeOrder] ELSE c

-----------------------------------------------------------------------------
(* The setup commands. *)

Merged(f) ==
    LET asked == IF f.priority = <<>> THEN Catalog
                 ELSE LET p == IF f.order = "custom" THEN f.priority ELSE Modern(f.priority)
                      IN  IF f.enabled THEN WithDefaults(p) ELSE p
    IN  ProfileEffects([f EXCEPT !.priority = asked])
\* Mutant: the contradiction of default and disabled providers is not looked for.
MergeableUnjudged(f) == f.kind = "config"

Mergeable(f) == f.kind = "config" /\ (f.default = NoName \/ f.default \notin f.disabled)

\* One command: the fields it sets in the loaded settings.
Edited(c) ==
       {[c EXCEPT !.enabled = on] : on \in BOOLEAN}                                \* set-routing
  \cup {[c EXCEPT !.default = p, !.enabled = FALSE] : p \in Names}                 \* set-default
  \cup {[c EXCEPT !.priority = <<p>>] : p \in Names}                               \* set-priority
  \cup {[c EXCEPT !.priority = OldOrder]}
  \cup {[c EXCEPT !.order = "measured"]}                                           \* set-order auto
  \cup {[c EXCEPT !.order = "custom", !.priority = <<p>>, !.enabled = TRUE] : p \in Names}
  \cup {[c EXCEPT !.disabled = @ \cup {p}] : p \in Names \ {c.default}}            \* disable
  \cup {[c EXCEPT !.disabled = @ \ {p}] : p \in Names}                             \* enable
  \cup {[Merged(c) EXCEPT !.profile = "self_hosted"]}                              \* setup --preset

\* _write_behavior_config: every field of the data wins over the file's, its other
\* sections stay, and a self-hosted file does not keep the derived order.
Written(data, there) ==
    [data EXCEPT !.kind = "config", !.by = "cli",
        !.other = IF there.kind = "config" THEN there.other ELSE "none",
        !.priority = IF data.profile = "self_hosted" THEN <<>> ELSE @]

Resting == [step |-> "idle", data |-> Missing]
Step(o, step) == operator[o].step = step
Turn(o, step, data) == operator' = [operator EXCEPT ![o] = [step |-> step, data |-> data]]

\* _load_behavior_config: a file it cannot merge is moved aside, and the command goes on
\* with the defaults.
LoadForEdit(o) ==
    /\ Step(o, "idle") /\ edits.commands < MaxCommands
    /\ edits' = [edits EXCEPT !.commands = @ + 1]
    /\ IF Mergeable(disk) THEN Turn(o, "edit", Merged(disk))
       ELSE Turn(o, IF disk.kind = "none" THEN "edit" ELSE "refused", Defaults)
    /\ UNCHANGED <<disk, loading>>

\* path.rename moves whatever has the name by now; with no file it only warns.
QuarantineBehavior(o) ==
    /\ Step(o, "refused") /\ disk' = Missing
    /\ Turn(o, "edit", Defaults)
    /\ UNCHANGED <<loading, edits>>

\* The edited settings are merged once more, and a contradiction ends the command.
EditSettings(o) ==
    /\ Step(o, "edit")
    /\ \E c \in Edited(operator[o].data) :
          IF Mergeable(c) THEN Turn(o, "write", Merged(c)) ELSE operator' = [operator EXCEPT ![o] = Resting]
    /\ UNCHANGED <<disk, loading, edits>>

\* reset writes the defaults without a merge.
ResetSettings(o) ==
    /\ Step(o, "edit") /\ Turn(o, "write", Defaults)
    /\ UNCHANGED <<disk, loading, edits>>

RereadSettings(o) ==
    /\ Step(o, "write") /\ Turn(o, "replace", Written(operator[o].data, disk))
    /\ UNCHANGED <<disk, loading, edits>>

ReplaceSettings(o) ==
    /\ Step(o, "replace") /\ disk' = operator[o].data
    /\ operator' = [operator EXCEPT ![o] = Resting]
    /\ UNCHANGED <<loading, edits>>

-----------------------------------------------------------------------------
(* The reader in the engine. *)

\* The defaults with the file's sections over them, field by field.
Overlay(f) == [Defaults EXCEPT !.profile = f.profile, !.default = f.default, !.enabled = f.enabled,
                  !.order = f.order, !.disabled = f.disabled,
                  !.priority = IF f.priority = <<>> THEN Catalog ELSE f.priority]
Validated(c) ==
    LET p == IF c.order = "custom" THEN c.priority ELSE Modern(c.priority)
    IN  ProfileEffects([c EXCEPT !.priority = IF c.enabled THEN WithDefaults(p) ELSE p])
Accepted(f) ==
    f.kind = "config" /\ f.other # "refused" /\ ~(f.default # NoName /\ f.default \in f.disabled)

\* _apply_desktop_settings: an order typed there, over the loaded settings.
DesktopOrder(c, names) == ProfileEffects([c EXCEPT !.order = "custom", !.priority = WithDefaults(names)])

\* load_config reads and judges; a refused file is moved aside, whichever it is by then.
LoadConfig ==
    /\ loading = Missing /\ disk.kind # "none" /\ ~Accepted(disk)
    /\ loading' = disk
    /\ UNCHANGED <<disk, operator, edits>>

QuarantineRuntime ==
    /\ loading # Missing /\ loading' = Missing /\ disk' = Missing
    /\ UNCHANGED <<operator, edits>>

HandEdit ==
    /\ edits.hand < MaxHandEdits /\ edits' = [edits EXCEPT !.hand = @ + 1]
    /\ disk' \in HandWritten
    /\ UNCHANGED <<operator, loading>>

ConfigInit ==
    /\ disk \in {Missing} \cup HandWritten
    /\ operator = [o \in Operators |-> Resting]
    /\ loading = Missing /\ edits = [commands |-> 0, hand |-> 0]

ConfigNext ==
    \/ \E o \in Operators : \/ LoadForEdit(o) \/ QuarantineBehavior(o) \/ EditSettings(o)
                            \/ ResetSettings(o) \/ RereadSettings(o) \/ ReplaceSettings(o)
    \/ LoadConfig \/ QuarantineRuntime \/ HandEdit

ConfigSpec == ConfigInit /\ [][ConfigNext]_configvars

-----------------------------------------------------------------------------
\* A file a setup command wrote is one that requests accept, unless a hand left a section
\* in it that the commands do not judge, and both readers take the same settings from it,
\* whatever commands ran beside each other and whatever was edited in between; and an
\* order typed in the Desktop over it routes as the one set-order would store.
OwnFileReadAlike ==
    (disk.kind = "config" /\ disk.by = "cli" /\ disk.other # "refused") =>
        /\ Accepted(disk) /\ Mergeable(disk)
        /\ Validated(Overlay(disk)) = RoutingView(Merged(disk))
        /\ \A p \in Names : DesktopOrder(Validated(Overlay(disk)), <<p>>).priority
                = Merged([disk EXCEPT !.order = "custom", !.priority = <<p>>, !.enabled = TRUE]).priority
=============================================================================
