---------------------------- MODULE FieldRules ----------------------------
(***************************************************************************)
(* The rules that stand between a candidate's answer and a form field:     *)
(* what an answer of a kind may be (CandidateKnowledgeService), which      *)
(* observed field it may be bound to (ApplicationFieldBindingService),     *)
(* what the executor may do to the live control                            *)
(* (ApplicationFieldExecutionService), and how the coverage review         *)
(* classifies a required control (ApplicationFieldCoverageService).        *)
(* A value is a record: its form (a word, a number or a day), the word or  *)
(* the amount, its length and number of lines, and whether it is written   *)
(* the way the program normalises it.                                      *)
(***************************************************************************)
EXTENDS Integers, FiniteSets

CONSTANT Words     \* the words and the choices a value may hold

ASSUME WordsAssumption == {"Yes", "No", "cut"} \subseteq Words

\* The kinds of answer (ApplicationAnswerKind).  The kinds left out
\* (technology, behavioral, employer-specific) are judged like LONG_TEXT.
AnswerKinds == {"EXACT", "SHORT_TEXT", "LONG_TEXT", "NUMBER", "SALARY",
                "DATE", "AVAILABILITY", "YES_NO", "MULTIPLE_CHOICE"}
NumericKinds == {"NUMBER", "SALARY"}
DateKinds == {"DATE", "AVAILABILITY"}

\* The kinds of control a page shows (PortalFieldControlKind).
ControlKinds == {"TEXT", "TEXT_AREA", "EMAIL", "TELEPHONE", "NUMBER", "DATE",
                 "SELECT", "RADIO_GROUP", "CHECKBOX", "FILE_UPLOAD",
                 "SIGNATURE", "DISCLOSURE", "CUSTOM"}
HumanOnly == {"FILE_UPLOAD", "SIGNATURE", "DISCLOSURE", "CUSTOM"}
Executable == ControlKinds \ HumanOnly

Unbounded == [low |-> -1000, high |-> 1000]   \* no bound was given
Within(n, bounds) == bounds.low =< n /\ n =< bounds.high
ShortLimit == 500

\* A value of an answer.
Text == [form : {"word", "number", "day"}, word : Words, amount : Int,
         length : Int, lines : Int, normal : BOOLEAN]

Casefold(word) == CASE word \in {"Yes", "YES"} -> "yes"
                    [] word \in {"No", "NO"} -> "no"
                    [] OTHER -> word

----------------------------------------------------------------------------
(* The rules a draft is created with, and the values they accept.          *)

\* Rules a draft may carry: bounds are ordered and belong to numbers and
\* days, choices belong to multiple choice and only to it.
RulesAllowed(kind, rules) ==
    /\ (kind = "MULTIPLE_CHOICE") <=> (rules.choices # {})
    /\ rules.range.low =< rules.range.high
    /\ rules.range # Unbounded => kind \in NumericKinds \cup DateKinds

\* _validate_typed_answer accepts the value.
Accepts(kind, value, rules) ==
    /\ kind = "EXACT" => value.lines = 1
    /\ kind \in {"EXACT", "SHORT_TEXT"} => value.length =< ShortLimit
    /\ kind = "YES_NO" => Casefold(value.word) \in {"yes", "no"}
    /\ kind \in NumericKinds => value.form = "number" /\ Within(value.amount, rules.range)
    /\ kind \in DateKinds => value.form = "day" /\ Within(value.amount, rules.range)
    /\ kind = "MULTIPLE_CHOICE" => value.word \in rules.choices

\* The value the same function returns: yes/no, numbers and days are
\* rewritten in their normal spelling, the rest is kept.
Canonical(kind, value) ==
    CASE kind = "YES_NO" ->
           [value EXCEPT !.word = IF Casefold(value.word) = "yes" THEN "Yes" ELSE "No"]
      [] kind \in NumericKinds \cup DateKinds -> [value EXCEPT !.normal = TRUE]
      [] OTHER -> value

----------------------------------------------------------------------------
(* Binding a reviewed answer to an observed field.                         *)

\* The controls an answer of a kind may be bound to; a kind that is not in
\* the domain may be bound to any.
ControlsFor ==
    [kind \in {"NUMBER", "SALARY", "DATE", "AVAILABILITY", "YES_NO", "MULTIPLE_CHOICE"} |->
        CASE kind \in NumericKinds -> {"NUMBER", "TEXT"}
          [] kind = "DATE" -> {"DATE", "TEXT"}
          [] kind = "AVAILABILITY" -> {"DATE", "TEXT", "TEXT_AREA"}
          [] kind = "YES_NO" -> {"SELECT", "RADIO_GROUP", "CHECKBOX"}
          [] OTHER -> {"SELECT", "RADIO_GROUP"}]

\* _compatibility_errors finds no error.
Compatible(answer, field) ==
    /\ answer.status \in {"REVIEWED", "PROMOTED"}
    /\ answer.kind \in DOMAIN ControlsFor => field.kind \in ControlsFor[answer.kind]
    /\ answer.kind = "MULTIPLE_CHOICE" =>
          field.options # {} /\ answer.rules.choices \subseteq field.options
    /\ answer.value.length =< field.limit
    /\ answer.kind \in NumericKinds =>
          answer.value.form = "number" /\ Within(answer.value.amount, field.range)
    /\ answer.kind \in DateKinds =>
          IF answer.value.form = "day" THEN Within(answer.value.amount, field.range)
                                       ELSE field.kind # "DATE"
    /\ answer.kind \in {"YES_NO", "MULTIPLE_CHOICE"} /\ field.options # {} =>
          answer.value.word \in field.options

\* The permission the preview proposes.
Proposed(answer, field) ==
    CASE ~Compatible(answer, field) -> "PROHIBITED"
      [] field.kind \in HumanOnly \/ field.legal -> "REVIEW_REQUIRED"
      [] OTHER -> "AUTOFILL_ALLOWED"

\* The permissions the user may approve a compatible field with.
Approvable(field, permission) ==
    /\ permission # "PROHIBITED"
    /\ permission = "AUTOFILL_ALLOWED" => field.kind \notin HumanOnly /\ ~field.legal

----------------------------------------------------------------------------
(* What the executor may do to a live control.                             *)

\* The state of the control allows an action on it (_validate_control).
Operable(control, bound) ==
    /\ control.kind \in Executable
    /\ control.located /\ ~control.frozen /\ ~control.repeated
    /\ control.visible /\ ~control.legal
    /\ control.kind = bound

\* _action finds the action that enters the value.
Enterable(control, value) ==
    /\ control.kind \in {"RADIO_GROUP", "SELECT"} => value.word \in control.options
    /\ control.kind = "CHECKBOX" => Casefold(value.word) \in {"yes", "no"}

----------------------------------------------------------------------------
(* The coverage review: the class of one required, visible control.        *)
(* `current` are the bindings of this page and control, `stale` says there *)
(* is one of the control for another page, `fresh` that the bound answer   *)
(* still has the bound revision, `done` that a verified execution of the   *)
(* binding on this page is on record.                                      *)

KeptForUser(control) ==
    control.kind \notin Executable \/ control.legal \/ control.frozen \/ control.repeated

Coverage(control, current, stale, fresh, done) ==
    CASE KeptForUser(control) -> "MANUAL_REQUIRED"
      [] ~KeptForUser(control) /\ control.satisfied -> "SATISFIED_ON_PAGE"
      [] ~KeptForUser(control) /\ ~control.satisfied /\ ~control.located -> "MANUAL_REQUIRED"
      [] OTHER ->
           IF current = {} THEN (IF stale THEN "STALE_BINDING" ELSE "UNBOUND")
           ELSE IF Cardinality(current) > 1 THEN "AMBIGUOUS_BINDING"
           ELSE LET binding == CHOOSE b \in current : TRUE IN
                CASE ~fresh[binding] -> "STALE_BINDING"
                  [] fresh[binding] /\ binding.permission # "AUTOFILL_ALLOWED" -> "MANUAL_REQUIRED"
                  [] OTHER -> IF done[binding] THEN "ALREADY_VERIFIED" ELSE "READY_TO_EXECUTE"
=============================================================================
