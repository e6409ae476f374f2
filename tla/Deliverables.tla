---------------------------- MODULE Deliverables ----------------------------
(***************************************************************************)
(* Reports and decks.  A ledger of facts, each with its sources, grounds   *)
(* what they say; a saved revision is never written again; a deck is       *)
(* rendered for review, and exported only as it was reviewed.  The look of *)
(* a deck is that of a template at the time the deck was begun.  Drafts by *)
(* a model wait for it; everything else is one request.                    *)
(***************************************************************************)
EXTENDS Naturals, FiniteSets, FiniteSetsExt

CONSTANTS
    ReportKeys, DeckKeys,       \* names with their revisions
    Ledgers,                    \* ledgers clients send: per fact, its sources
    Writers,                    \* requests that wait for a model
    Templates, Looks, BuiltIn,  \* templates, what they may look like, a look of the program
    ExportKeys                  \* idempotency keys of exports

ASSUME DeliverablesAssumption ==
    /\ ReportKeys \cap DeckKeys = {} /\ BuiltIn \notin Looks
    /\ \A l \in Ledgers : \A f \in DOMAIN l : l[f] # {}

VARIABLES
    deliverables,       \* what is saved, by key: the entries or claims, and the look
    templates,          \* presentation templates
    writer,             \* requests waiting for a model
    previewed,          \* renderings shown for review
    exports,            \* the export recorded under each idempotency key
    given               \* files handed out, with the key they were asked under

deliverableVars == <<deliverables, templates, writer, previewed, exports, given>>

\* VerificationState, from the strongest to the weakest
Verifications == <<"verified", "observed", "self_asserted", "unverified", "stale", "contradicted">>
Risk(v) == CHOOSE k \in DOMAIN Verifications : Verifications[k] = v
Weakest(vs) == Verifications[Max({Risk(v) : v \in vs})]
IsPublishable(v) == v \notin {"stale", "contradicted"}

Source(kind, state) == [kind |-> kind, state |-> state]

\* What a source of a kind may be called; conversations and memories ground nothing.
MayBe(source) ==
    \/ source.state = "verified" /\ source.kind \in {"run_event", "validated_artifact", "task_observation"}
    \/ source.state = "observed" /\ source.kind \in {"task_observation", "vault_note", "calendar_interval", "git_summary"}
    \/ source.state = "self_asserted" /\ source.kind = "user_assertion"
    \/ source.state \in {"unverified", "stale", "contradicted"}
CanGround(source) == source.kind \notin {"conversation", "memory"}

\* A fact is as weak as the weakest of its sources.
Fact(sources) == [shown |-> Weakest({x.state : x \in sources}), sources |-> sources]
FactsOf(ledger) == {Fact(ledger[f]) : f \in DOMAIN ledger}
Admitted(ledger) == \A f \in DOMAIN ledger : \A x \in ledger[f] : MayBe(x) /\ CanGround(x)

Activity == Fact({Source("run_event", "verified")})
Assertion == Fact({Source("user_assertion", "self_asserted")})
OfReport == Fact({Source("validated_artifact", "verified")})

\* resolve_fact_refs: an entry or claim is as weak as the weakest fact it cites
Entry(facts) == [shown |-> Weakest({f.shown : f \in facts}),
                 sources |-> UNION {f.sources : f \in facts}]

\* What is built of entries: each grounded, and none of them stale or contradicted.
Buildable(entries) == entries # {} /\ \A e \in entries : IsPublishable(e.shown)
ReportOf(entries) == [entries |-> entries, look |-> BuiltIn]
DeckOf(claims, look) == [entries |-> claims, look |-> look]

\* The notes of a slide are grounded as its claims are.
WithNote(claim, note) == {Entry(claim), Entry(note)}

NotWriting == [step |-> "idle"]
NoTemplate == [state |-> "none"]

DeliverablesTypeOK ==
    /\ DOMAIN deliverables \subseteq ReportKeys \cup DeckKeys
    /\ \A k \in DOMAIN deliverables : deliverables[k].look \in Looks \cup {BuiltIn}
    /\ templates \in [Templates -> {NoTemplate} \cup [state : {"active", "deleted"}, look : Looks]]
    /\ writer \in [Writers -> {NotWriting} \cup
           [step : {"asking"}, key : ReportKeys \cup DeckKeys, facts : SUBSET {Activity, Assertion, OfReport},
            look : Looks \cup {BuiltIn}]]
    /\ DOMAIN exports \subseteq ExportKeys /\ \A g \in given : g.under \in ExportKeys

DeliverablesInit ==
    /\ deliverables = <<>> /\ exports = <<>>
    /\ templates = [t \in Templates |-> NoTemplate]
    /\ writer = [w \in Writers |-> NotWriting]
    /\ previewed = {} /\ given = {}

(***************************************************************************)
(* Composing                                                               *)
(***************************************************************************)
With(rows, key, row) == [k \in DOMAIN rows \cup {key} |-> IF k = key THEN row ELSE rows[k]]
Saved(k, d) == With(deliverables, k, d)

\* save_deliverable inserts: a revision that is there already fails the request.
Save(k, document) ==
    /\ k \notin DOMAIN deliverables /\ Buildable(document.entries)
    /\ deliverables' = Saved(k, document)

\* The client's ledger grounds what the client says.
ComposeReport(k, ledger) ==
    /\ Admitted(ledger)
    /\ \E F \in (SUBSET FactsOf(ledger)) \ {{}} : Save(k, ReportOf({Entry(F)}))
    /\ UNCHANGED <<templates, writer, previewed, exports, given>>

ComposeDeck(k, ledger) ==
    /\ Admitted(ledger)
    /\ \E F, G \in (SUBSET FactsOf(ledger)) \ {{}} : Save(k, DeckOf(WithNote(F, G), BuiltIn))
    /\ UNCHANGED <<templates, writer, previewed, exports, given>>

\* What users say of their own work is self-asserted.
ComposeManually(k) ==
    /\ Save(k, ReportOf({Entry({Assertion})}))
    /\ UNCHANGED <<templates, writer, previewed, exports, given>>

\* deck_theme: the look as the template has it now
LooksNow == {BuiltIn} \cup {templates[t].look : t \in {u \in Templates : templates[u].state = "active"}}

(* Each entry of a report becomes a fact of one source, the report, which  *)
(* is verified whatever the entry was.                                     *)
FactsOfReport(r) == {OfReport : e \in deliverables[r].entries}

ComposeFromReport(k, r) ==
    /\ r \in DOMAIN deliverables
    /\ \E look \in LooksNow : Save(k, DeckOf({Entry({f}) : f \in FactsOfReport(r)}, look))
    /\ UNCHANGED <<templates, writer, previewed, exports, given>>

(* A report drafted by a model is of the public runs of its period, which  *)
(* are verified; a deck of the user's brief, and of a report if one is     *)
(* named.  The model is asked with no revision reserved.                   *)
Asking(w, k, facts, look) ==
    /\ writer[w] = NotWriting
    /\ writer' = [writer EXCEPT ![w] = [step |-> "asking", key |-> k, facts |-> facts, look |-> look]]
    /\ UNCHANGED <<deliverables, templates, previewed, exports, given>>

BeginReportDraft(w, k) == Asking(w, k, {Activity}, BuiltIn)

\* A schedule asks for nothing when the draft of its occurrence is there.
BeginScheduledDraft(w, k) == k \notin DOMAIN deliverables /\ BeginReportDraft(w, k)

BeginDeckDraft(w, k) ==
    \E look \in LooksNow, R \in {{}} \cup {FactsOfReport(r) : r \in ReportKeys \cap DOMAIN deliverables} :
        Asking(w, k, {Assertion} \cup R, look)

\* Each entry of the answer cites facts that were offered; anything else fails the request.
ModelDraftsReport(w) ==
    /\ writer[w] # NotWriting /\ writer[w].key \in ReportKeys
    /\ \E F \in (SUBSET writer[w].facts) \ {{}} : Save(writer[w].key, ReportOf({Entry(F)}))
    /\ writer' = [writer EXCEPT ![w] = NotWriting]
    /\ UNCHANGED <<templates, previewed, exports, given>>

\* A slide's notes rest on the facts of its claim.
ModelDraftsDeck(w) ==
    /\ writer[w] # NotWriting /\ writer[w].key \in DeckKeys
    /\ \E F \in (SUBSET writer[w].facts) \ {{}} : Save(writer[w].key, DeckOf(WithNote(F, F), writer[w].look))
    /\ writer' = [writer EXCEPT ![w] = NotWriting]
    /\ UNCHANGED <<templates, previewed, exports, given>>

\* The model fails or runs out of time, its answer is refused, or its revision is there.
DraftFails(w) ==
    /\ writer[w] # NotWriting /\ writer' = [writer EXCEPT ![w] = NotWriting]
    /\ UNCHANGED <<deliverables, templates, previewed, exports, given>>

(***************************************************************************)
(* Templates: each change names the content it was made for                *)
(***************************************************************************)
CreateTemplate(t, look) ==
    /\ templates[t] = NoTemplate
    /\ templates' = [templates EXCEPT ![t] = [state |-> "active", look |-> look]]
    /\ UNCHANGED <<deliverables, writer, previewed, exports, given>>

UpdateTemplate(t, look) ==
    /\ templates[t].state = "active" /\ templates' = [templates EXCEPT ![t].look = look]
    /\ UNCHANGED <<deliverables, writer, previewed, exports, given>>

DeleteOrRestoreTemplate(t) ==
    /\ templates[t] # NoTemplate
    /\ templates' = [templates EXCEPT ![t].state = IF @ = "active" THEN "deleted" ELSE "active"]
    /\ UNCHANGED <<deliverables, writer, previewed, exports, given>>

(***************************************************************************)
(* Review and export                                                       *)
(***************************************************************************)
Rendered(k) == [deck |-> k, bytes |-> deliverables[k]]

Preview(k) ==
    /\ k \in DeckKeys \cap DOMAIN deliverables /\ previewed' = previewed \cup {Rendered(k)}
    /\ UNCHANGED <<deliverables, templates, writer, exports, given>>

\* record_deliverable_export: a key is of one export
Recordable(x, rendering) == x \in DOMAIN exports => exports[x] = rendering

(* The file is rendered again, compared with the hash of the one that was  *)
(* previewed, recorded, and handed out.  The answer may be lost, and the    *)
(* request repeated under its key.                                         *)
Export(r, x) ==
    /\ r \in previewed /\ r.deck \in DOMAIN deliverables
    /\ Rendered(r.deck) = r /\ Recordable(x, r)
    /\ exports' = With(exports, x, Rendered(r.deck))
    /\ \/ given' = given \cup {[under |-> x, file |-> Rendered(r.deck)]}
       \/ UNCHANGED given
    /\ UNCHANGED <<deliverables, templates, writer, previewed>>

DeliverablesNext ==
    \/ \E k \in ReportKeys : ComposeManually(k) \/ \E l \in Ledgers : ComposeReport(k, l)
    \/ \E k \in DeckKeys, l \in Ledgers : ComposeDeck(k, l)
    \/ \E k \in DeckKeys, r \in ReportKeys : ComposeFromReport(k, r)
    \/ \E w \in Writers, k \in ReportKeys : BeginReportDraft(w, k) \/ BeginScheduledDraft(w, k)
    \/ \E w \in Writers, k \in DeckKeys : BeginDeckDraft(w, k)
    \/ \E w \in Writers : ModelDraftsReport(w) \/ ModelDraftsDeck(w) \/ DraftFails(w)
    \/ \E t \in Templates, look \in Looks : CreateTemplate(t, look) \/ UpdateTemplate(t, look)
    \/ \E t \in Templates : DeleteOrRestoreTemplate(t)
    \/ \E k \in DeckKeys : Preview(k)
    \/ \E r \in previewed, x \in ExportKeys : Export(r, x)

(***************************************************************************)
(* Properties                                                              *)
(***************************************************************************)
(* What a deliverable shows of an entry is never stronger than the weakest *)
(* source it cites, and never rests on what is stale or contradicted.      *)
NothingIsOverstated ==
    \A k \in DOMAIN deliverables : \A e \in deliverables[k].entries :
        \A x \in e.sources : Risk(x.state) <= Risk(e.shown) /\ IsPublishable(x.state) /\ CanGround(x)

(* What was previewed can still be exported, whatever became of templates   *)
(* and drafts since; and each file handed out is one that was previewed,    *)
(* and the only one of its key.                                            *)
ReviewedIsExportable ==
    /\ \A r \in previewed : r.deck \in DOMAIN deliverables /\ Rendered(r.deck) = r
    /\ \A g \in given : g.file \in previewed /\ exports[g.under] = g.file
=============================================================================
