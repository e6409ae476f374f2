----------------------------- MODULE MCLibrary ------------------------------
(* What the user keeps and what is fetched for it: memory, studies, Radar and *)
(* to-dos; X co-creation; sessions, settings and lists; the answers of sites, *)
(* models and tools; and the Vault as it is shown, as one instance. Init      *)
(* picks a component; the others rest in their initial states.                *)
EXTENDS Memory, Study, Boards, XCoCreation, Sessions, Settings, Paging, DailyContext,
        ProviderStream, ToolProcess, VaultWatch, TLC

CONSTANTS a, b, c, d        \* ids; a and b are alike, and so are c and d

VARIABLE part               \* what this behaviour is about

ModelLane == [item \in Items |-> "x"]    \* posts on X
ModelTasks == <<"v1">>              \* one task in the Vault

\* Replies by protocol: text and calls, in one piece or in fragments, ended or cut short.
ModelReplies ==
    [openai |-> {<<"text", "text", "stop", "done">>, <<"text", "length">>,
                 <<"text", "comment", "fragment", "fragment", "stop", "done">>},
     ollama |-> {<<"text", "text", "stop">>, <<"calls", "stop">>}]

FirstReply == <<"text", "length">>
FirstBody == Encoded("openai", "lf", FirstReply)

\* Sources of a research: two that bear on the song, one that bears on its popularity
\* at the first's site, and one the provider did not cite.
Finding(host, cited, supports) == [host |-> host, cited |-> cited, supports |-> supports]
ModelFindings ==
    {Finding(1, TRUE, {"analysis"}), Finding(1, TRUE, {"popularity"}),
     Finding(2, TRUE, {"popularity"}), Finding(3, FALSE, {"analysis", "popularity"})}

\* Posts a search may name: one as X has it, the same at another address, one there is
\* not, one whose parts disagree, one more, and that one under another author.
Post(url, post, shapely, author) == [url |-> url, post |-> post, shapely |-> shapely, author |-> author]
ModelCandidates ==
    [good |-> Post("a/1", 1, TRUE, TRUE), tagged |-> Post("a/1?s", 1, TRUE, TRUE),
     invented |-> Post("a/2", 2, TRUE, TRUE), mixed |-> Post("b/1", 1, FALSE, FALSE),
     other |-> Post("c/3", 3, TRUE, TRUE), stolen |-> Post("d/3", 3, TRUE, FALSE)]
ModelCanonical == (1 :> "a/1") @@ (3 :> "c/3")
Listings == UNION {[1 .. n -> DOMAIN ModelCandidates] : n \in 0 .. 2}
ModelPayloads ==
    [phase : {"complete"}, items : Listings \cup {<<"good", "good", "good">>}]
        \cup {[phase |-> "progress", items |-> <<>>]}

Symmetry == Permutations({a, b}) \cup Permutations({c, d})

NoteVars == <<memoryVars, studyVars, radarVars, todoVars>>
XVars == <<xAutomationVars, xDraftVars, searchVars>>
ListVars == <<sessionVars, settingVars, pagingVars, watchVars>>
AnswerVars == <<dailyVars, providerVars, processVars>>

NoteParts == {"memory", "study", "radar", "todos"}
XParts == {"schedules", "drafts", "posts"}
ListParts == {"branch", "export", "settings", "pages", "vault"}
AnswerParts == {"daily", "stream", "process"}

Init ==
    /\ part \in NoteParts \cup XParts \cup ListParts \cup AnswerParts
    /\ MemoryInit /\ StudyInit /\ RadarInit /\ TodosInit
    /\ XAutomationInit /\ (part # "schedules" => authMode = "oauth")
    /\ XDraftsInit /\ (part # "drafts" => savedTopics = {})
    /\ XSearchInit
    /\ SessionsInit /\ (part \notin {"branch", "export"} => \A p \in Profiles : ceiling[p].most = "public")
    /\ SettingsInit
    /\ PagingInit /\ (part # "pages" => \A id \in PageRows : listed[id].at = 1)
    /\ WatchInit /\ (part # "vault" => \A n \in Notes : notes[n] = 0)
    /\ DailyInit
    /\ ProviderInit
    /\ part # "stream" => protocol = "openai" /\ newline = "lf" /\ script = FirstReply /\ wire = FirstBody
    /\ ProcessInit /\ (part # "process" => program = "worker")

NoteSteps ==
    \/ part = "memory" /\ MemoryNext /\ UNCHANGED <<studyVars, radarVars, todoVars>>
    \/ part = "study" /\ StudyNext /\ UNCHANGED <<memoryVars, radarVars, todoVars>>
    \/ part = "radar" /\ RadarNext /\ UNCHANGED <<memoryVars, studyVars, todoVars>>
    \/ part = "todos" /\ TodosNext /\ UNCHANGED <<memoryVars, studyVars, radarVars>>

XSteps ==
    \/ part = "schedules" /\ XAutomationNext /\ UNCHANGED <<xDraftVars, searchVars>>
    \/ part = "drafts" /\ XDraftsNext /\ UNCHANGED <<xAutomationVars, searchVars>>
    \/ part = "posts" /\ XSearchNext /\ UNCHANGED <<xAutomationVars, xDraftVars>>

ListSteps ==
    \/ part = "branch" /\ (StoreSteps \/ PostSteps \/ ForkSteps) /\ UNCHANGED <<settingVars, pagingVars, watchVars>>
    \/ part = "export" /\ (StoreSteps \/ PostSteps \/ ExportSteps) /\ UNCHANGED <<settingVars, pagingVars, watchVars>>
    \/ part = "settings" /\ SettingsNext /\ UNCHANGED <<sessionVars, pagingVars, watchVars>>
    \/ part = "pages" /\ PagingNext /\ UNCHANGED <<sessionVars, settingVars, watchVars>>
    \/ part = "vault" /\ WatchNext /\ UNCHANGED <<sessionVars, settingVars, pagingVars>>

AnswerSteps ==
    \/ part = "daily" /\ DailyNext /\ UNCHANGED <<providerVars, processVars>>
    \/ part = "stream" /\ ProviderNext /\ UNCHANGED <<dailyVars, processVars>>
    \/ part = "process" /\ ProcessNext /\ UNCHANGED <<dailyVars, providerVars>>

Next ==
    /\ UNCHANGED part
    /\ \/ NoteSteps /\ UNCHANGED <<XVars, ListVars, AnswerVars>>
       \/ XSteps /\ UNCHANGED <<NoteVars, ListVars, AnswerVars>>
       \/ ListSteps /\ UNCHANGED <<NoteVars, XVars, AnswerVars>>
       \/ AnswerSteps /\ UNCHANGED <<NoteVars, XVars, ListVars>>

Spec == Init /\ [][Next]_<<part, NoteVars, XVars, ListVars, AnswerVars>>

\* The rows, the requests and what is read of a wire are of their types.
LibraryTypeOK ==
    /\ part = "memory" => MemoryTypeOK
    /\ part = "study" => StudyTypeOK
    /\ part = "radar" => RadarTypeOK
    /\ part = "todos" => TodosTypeOK
    /\ part = "schedules" => XAutomationTypeOK
    /\ part = "drafts" => XDraftsTypeOK
    /\ part = "posts" => XSearchTypeOK
    /\ part \in {"branch", "export"} => SessionsTypeOK
    /\ part = "settings" => SettingsTypeOK
    /\ part = "pages" => PagingTypeOK
    /\ part = "vault" => WatchTypeOK
    /\ part = "daily" => DailyTypeOK
    /\ part = "stream" => ProviderTypeOK
    /\ part = "process" => ProcessTypeOK

\* What the user has decided stays decided, and an edit falls on what its author saw.
DecisionsAreKept ==
    /\ part = "memory" => SummaryIsSavedOnce /\ ProtectedIsKept
    /\ part = "radar" => DecisionsSurviveRefresh
    /\ part = "todos" => NoEditIsLost
    /\ part = "schedules" => SavedSettingsAreScheduled
    /\ part = "drafts" => EditsAreAChain

\* What is read page by page, or followed as it changes, leaves nothing out and repeats
\* nothing.
ListsAreWhole ==
    /\ part = "todos" => BoardIsListedOnce
    /\ part = "pages" => PagesAreWhole
    /\ part = "export" => ExportIsInOrder
    /\ part = "vault" => ListFollowsVault

\* What is shown as an answer is what was asked for, all of it, and of its sources.
AnswersAreOfTheirSource ==
    /\ part = "study" => StudyIsConsistent
    /\ part = "posts" => EvidenceIsReal
    /\ part = "daily" => DailyIsOfItsSource
    /\ part = "stream" => AnswerIsOfReply
    /\ part = "process" => ProcessIsEnded

\* A branch and a revision follow what they were made from.
SuccessorsAreWhole == BranchIsWhole /\ ProfileEditsAreSeen
=============================================================================
