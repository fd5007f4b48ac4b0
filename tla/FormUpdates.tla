----------------------------- MODULE FormUpdates -----------------------------
(***************************************************************************)
(* The pages that edit the State Database directly (ui/views/core, rules,   *)
(* services): a page is loaded with the present values in its form, a       *)
(* person changes some of them, and the whole form comes back.  The view    *)
(* sends one PUT for each field that is not empty, in the order of the      *)
(* form, and redirects with the errors it collected or with "Requests were  *)
(* successful!".  The requests of two persons run in two threads.           *)
(*                                                                         *)
(* Both persons have the same page open: pages of different kinds edit      *)
(* different fields.                                                        *)
(***************************************************************************)
EXTENDS Naturals, FiniteSets, Sequences

CONSTANTS
  Person,     \* who edits; also the value that person enters
  MaxEdited,  \* bound on the fields one person changes
  MaxTroubles, \* bound on the requests that are refused or not answered
  Old, Absent, Empty, \* a text from before; that of no value, and so of an empty input;
                      \* that of a list without a choice
  FitToUsage, Proportional  \* policies: one that RuleForm does not offer, its first

-----------------------------------------------------------------------------
(* The forms: the fields of each in the order they are sent.  One resource   *)
(* of a structure stands for all: each has fields of its own.                *)

ContainerForm == <<"guard", "max", "min", "weight">>
HostForm      == <<"max">>
UserForm      == <<"max", "min">>
LimitsForm    == <<"boundary", "boundary_type">>
RuleForm      == <<"amount", "rescale_policy", "up_events_required", "down_events_required">>
\* Those of three services: the structures snapshoter, with its choice of structures
\* left out, which is sent like the one of resources; the trainer of power models; the
\* energy controller, with one of its numbers and choices for all.  The other services
\* have fields of the same sorts.
ServiceForm    == <<"polling_frequency", "debug", "resources_persisted">>
TrainerForm    == <<"window_timelapse", "generated_metrics", "models_to_train", "debug">>
ControllerForm == <<"polling_frequency", "control_policy", "power_model">>

Form == [container |-> ContainerForm, host |-> HostForm, user |-> UserForm,
         limits |-> LimitsForm, rule |-> RuleForm, service |-> ServiceForm,
         trainer |-> TrainerForm, controller |-> ControllerForm]

\* An option of the trainer that has no input in its form.
NoInput == {"generated_metrics"}

\* Fields that may hold capitals (True and False are read whatever their letters), and
\* those with several choices.  The list of the code lacks the models to train.
Cased == {"models_to_train", "power_model"}
Multiple == {"resources_persisted", "generated_metrics", "models_to_train"}
multiple_choice_fields == {"resources_persisted", "generated_metrics"}

Kind == DOMAIN Form
FieldsOf(k) == {Form[k][i] : i \in DOMAIN Form[k]}

\* The fields that a structure or a rule may lack: rules that rescale down have no
\* policy to choose, and no amount; EnergyRescaleUp has no amount.  The inputs of limits
\* and rules that have no value are hidden; the one of a weight stays.
MayLack == [container |-> {{}, {"weight"}}, host |-> {{}}, user |-> {{}},
            limits |-> SUBSET FieldsOf("limits"),
            rule |-> {{}, {"amount"}, {"amount", "rescale_policy"}},
            service |-> {{}, {"resources_persisted"}},
            trainer |-> {{}, {"generated_metrics", "models_to_train"}},
            controller |-> {{}, {"power_model"}}]
HidesAbsent == {"limits", "rule"}

\* A page with a form also has a switch, which is a request of its own.
Services == {"service", "trainer", "controller"}
SwitchOf == [k \in {"container", "rule"} \cup Services |->
               CASE k = "container" -> "guarded" [] k = "rule" -> "active" [] OTHER -> "ACTIVE"]

Columns(k) == FieldsOf(k) \cup IF k \in DOMAIN SwitchOf THEN {SwitchOf[k]} ELSE {}

\* Fault: the two numbers of events share an address and are told apart by
\* event_type only, which is left out.
AddressWithoutType(f) == IF f = "down_events_required" THEN "up_events_required" ELSE f

\* What the State Database changes at the PUT of a field.
Address(f) == f

\* processLimitsBoundary returns the error of the second field only.
Forgotten(f) == f = "boundary"

\* A value: whose text it is, whether with capitals, and whether it is several choices.
Value(f) == [text : Person \cup {Old, Absent, Empty, FitToUsage, Proportional},
             capitals : IF f \in Cased THEN BOOLEAN ELSE {FALSE},
             several : IF f \in Multiple THEN BOOLEAN ELSE {FALSE}]

Plain(t) == [text |-> t, capitals |-> FALSE, several |-> FALSE]
NoValue == Plain(Absent)
EmptyList == Plain(Empty)

\* A value of field f with all that it may have, by t.
Full(f, t) == [text |-> t, capitals |-> f \in Cased, several |-> f \in Multiple]

\* request.POST[f].lower(): the last of the choices, in lower case.
Lowered(v) == Plain(v.text)

-----------------------------------------------------------------------------
VARIABLES
  kind,     \* the kind of page that is open
  db,       \* db[f]: value of field f in the State Database
  stage,    \* stage[p]: "away", "editing", "sending", or the answer
  seen,     \* seen[p]: the values on the page of p
  entered,  \* entered[p]: the fields p changes
  unsent,     \* unsent[p]: fields of the form of p still to be sent
  errors,   \* errors[p]: whether an error of a field of p will be shown
  alone,    \* alone[p]: whether nobody else has written since p loaded the page
  troubles

vars == <<kind, db, stage, seen, entered, unsent, errors, alone, troubles>>

Answers == {"success", "errors", "raised", "silent"}

TypeOK ==
  /\ kind \in Kind
  /\ DOMAIN db = Columns(kind) /\ \A f \in Columns(kind) : db[f] \in Value(f)
  /\ stage \in [Person -> {"away", "editing", "sending"} \cup Answers]
  /\ DOMAIN seen = Person
  /\ \A p \in Person : /\ DOMAIN seen[p] = Columns(kind)
                       /\ \A f \in Columns(kind) : seen[p][f] \in Value(f)
  /\ entered \in [Person -> SUBSET (FieldsOf(kind) \ NoInput)]
  /\ \A p \in Person : \E i \in 1..Len(Form[kind]) + 1 :
       unsent[p] = SubSeq(Form[kind], i, Len(Form[kind]))
  /\ errors \in [Person -> BOOLEAN]
  /\ alone \in [Person -> BOOLEAN]
  /\ troubles \in 0..MaxTroubles

Init ==
  /\ kind \in Kind
  /\ \E absent \in MayLack[kind], policy \in {Old, FitToUsage} :
       /\ policy = FitToUsage => kind = "rule" /\ absent = {"amount"}
       /\ db = [f \in Columns(kind) |-> IF f \in absent THEN NoValue
                                       ELSE IF f = "rescale_policy" THEN Plain(policy)
                                       ELSE Full(f, Old)]
  /\ stage = [p \in Person |-> "away"]
  /\ seen = [p \in Person |-> db]
  /\ entered = [p \in Person |-> {}]
  /\ unsent = [p \in Person |-> <<>>]
  /\ errors = [p \in Person |-> FALSE]
  /\ alone = [p \in Person |-> TRUE]
  /\ troubles = 0

Trouble == troubles < MaxTroubles /\ troubles' = troubles + 1

\* The page is rendered with the values of the State Database in its form.
Load(p) ==
  /\ stage[p] = "away"
  /\ stage' = [stage EXCEPT ![p] = "editing"]
  /\ seen' = [seen EXCEPT ![p] = db]
  /\ alone' = [alone EXCEPT ![p] = \A q \in Person \ {p} : stage[q] # "sending"]
  /\ UNCHANGED <<kind, db, entered, unsent, errors, troubles>>

\* An input that is hidden cannot be changed.  Choices are changed to several others.
Submit(p) ==
  /\ stage[p] = "editing"
  /\ \E fs \in SUBSET {f \in FieldsOf(kind) \ NoInput : kind \in HidesAbsent => seen[p][f] # NoValue} :
       /\ Cardinality(fs) <= MaxEdited
       /\ entered' = [entered EXCEPT ![p] = fs]
  /\ stage' = [stage EXCEPT ![p] = "sending"]
  /\ unsent' = [unsent EXCEPT ![p] = Form[kind]]
  /\ UNCHANGED <<kind, db, seen, errors, alone, troubles>>

\* What the input of a field holds that was loaded with v.  The browser selects the
\* first policy when the present one is not among them; choices that are not offered,
\* as models in lower case are not, are not checked.
Shown(f, v) ==
  IF f = "rescale_policy" /\ v.text = FitToUsage THEN Plain(Proportional)
  ELSE IF f \in NoInput \/ (f \in Multiple /\ v = NoValue) \/ (f \in Multiple \cap Cased /\ ~v.capitals)
       THEN EmptyList
  ELSE v

ValueSent(p, f) == IF f \in entered[p] THEN Full(f, p) ELSE Shown(f, seen[p][f])

\* request.POST[f] raises when nothing of f comes with the form.
Missing(f, v) == v = EmptyList /\ f \notin multiple_choice_fields

\* What the State Database is given: lists as they are, and the fields of rules; all else
\* through lower().
Stored(f, v) == IF kind = "rule" \/ f \in multiple_choice_fields THEN v ELSE Lowered(v)

Write(p, f, v) ==
  /\ db' = [db EXCEPT ![f] = v]
  /\ alone' = [q \in Person |-> alone[q] /\ (q = p \/ stage[q] = "away")]

\* One field: empty, not there, accepted, refused, or without an answer, which raises.
Put(p) ==
  /\ stage[p] = "sending" /\ unsent[p] # <<>>
  /\ LET f == Head(unsent[p])
         v == ValueSent(p, f)
     IN  \/ /\ v = NoValue
            /\ unsent' = [unsent EXCEPT ![p] = Tail(@)]
            /\ UNCHANGED <<db, stage, errors, alone, troubles>>
         \/ /\ Missing(f, v)
            /\ stage' = [stage EXCEPT ![p] = "raised"]
            /\ unsent' = [unsent EXCEPT ![p] = <<>>]
            /\ UNCHANGED <<db, errors, alone, troubles>>
         \/ /\ v # NoValue /\ ~Missing(f, v)
            /\ Write(p, Address(f), Stored(f, v))
            /\ unsent' = [unsent EXCEPT ![p] = Tail(@)]
            /\ UNCHANGED <<stage, errors, troubles>>
         \/ /\ v # NoValue /\ ~Missing(f, v)
            /\ unsent' = [unsent EXCEPT ![p] = Tail(@)]
            /\ errors' = [errors EXCEPT ![p] = @ \/ ~Forgotten(f)]
            /\ Trouble
            /\ UNCHANGED <<db, stage, alone>>
         \/ /\ v # NoValue /\ ~Missing(f, v)
            /\ stage' = [stage EXCEPT ![p] = "raised"]
            /\ unsent' = [unsent EXCEPT ![p] = <<>>]
            /\ Trouble
            /\ UNCHANGED <<db, errors, alone>>
  /\ UNCHANGED <<kind, seen, entered>>

\* redirect_with_errors
Answer(p) ==
  /\ stage[p] = "sending" /\ unsent[p] = <<>>
  /\ stage' = [stage EXCEPT ![p] = IF errors[p] THEN "errors" ELSE "success"]
  /\ UNCHANGED <<kind, db, seen, entered, unsent, errors, alone, troubles>>

\* guard_switch and rule_switch swallow whatever goes wrong; service_switch
\* prints a refusal and raises without an answer.
Switch(p) ==
  /\ stage[p] = "editing" /\ kind \in DOMAIN SwitchOf
  /\ \/ /\ Write(p, SwitchOf[kind], Plain(p))
        /\ stage' = [stage EXCEPT ![p] = "silent"]
        /\ UNCHANGED troubles
     \/ /\ stage' = [stage EXCEPT ![p] = "silent"]
        /\ Trouble
        /\ UNCHANGED <<db, alone>>
     \/ /\ kind \in Services
        /\ stage' = [stage EXCEPT ![p] = "raised"]
        /\ Trouble
        /\ UNCHANGED <<db, alone>>
  /\ UNCHANGED <<kind, seen, entered, unsent, errors>>

Next == \E p \in Person :
  Load(p) \/ Submit(p) \/ Put(p) \/ Answer(p) \/ Switch(p)

Spec == Init /\ [][Next]_vars
-----------------------------------------------------------------------------
(* Properties *)

\* What p wants field f to hold, and what is left of it once it is saved: models and
\* their names lose their capitals, and several of them all but one; metrics without an
\* input are wiped, and choices that were missing are an empty list; a policy that is not
\* offered (EnergyRescaleUp fits to usage) is replaced.
Wanted(p, f) == IF f \in entered[p] THEN Full(f, p) ELSE seen[p][f]
Saved(p, f) ==
  IF f \in NoInput \/ (f \in multiple_choice_fields /\ Wanted(p, f) = NoValue) THEN EmptyList
  ELSE IF f \in Cased THEN Lowered(Wanted(p, f))
  ELSE IF f = "rescale_policy" /\ f \notin entered[p] /\ seen[p][f].text = FitToUsage
       THEN Plain(Proportional)
  ELSE Wanted(p, f)

\* The page of somebody whom nobody crossed that says "Requests were successful!" has
\* saved its form, whatever was refused or not answered meanwhile: every field entered
\* has its value and no other has changed, but for what Saved says is lost, and for a
\* boundary whose error was forgotten.
SuccessMeansDone ==
  \A p \in Person : stage[p] = "success" /\ alone[p] =>
    \A f \in DOMAIN db : db[f] = Saved(p, f) \/ (f \in entered[p] /\ Forgotten(f))
=============================================================================
