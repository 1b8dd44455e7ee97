------------------------ MODULE ApplicationDocuments ------------------------
(***************************************************************************)
(* The documents of CandidateKnowledgeService: the import of a document    *)
(* with the claims proposed from it, the choice of one for the             *)
(* application, a document tailored from locked claims, and the evidence   *)
(* of what was submitted.  The encrypted file is written before the rows   *)
(* are committed.                                                          *)
(***************************************************************************)
EXTENDS CandidateKnowledge, Sequences

CONSTANTS
    Documents,      \* documents, imported or generated; each has one version
    Uploads,        \* fingerprints of uploads the user captured in a portal
    ClaimsOf,       \* the claims proposed from a document
    MaxAudits,      \* bound on the selections of the application
    NoDocument

ASSUME DocumentsAssumption ==
    /\ ClaimsOf \in [Documents -> SUBSET Claims]
    /\ \A d, e \in Documents : d # e => ClaimsOf[d] \cap ClaimsOf[e] = {}

VARIABLES
    files,        \* "none", "stored" or "lost": the encrypted file of a version
    documents,    \* document_versions with their documents and evidence source
    jobSource,    \* where the job of the application comes from
    selected,     \* selected_document_version_id of the application
    selections,   \* document_selection_audits, oldest first
    generations,  \* document_generation_audits
    submitted     \* submitted_document_evidence, a row for each capture

documentVars == <<files, documents, jobSource, selected, selections, generations, submitted>>
evidenceVars == <<knowledgeVars, documentVars>>

Rows == [kind : {"RESUME", "COVER_LETTER"}, primary : BOOLEAN, origin : {"IMPORTED", "GENERATED"}]

\* No row is mistaken for the absence of one.
ASSUME DocumentRowsAssumption == NoDocument \notin Rows

ResumesIn(rows) == {d \in DOMAIN rows : rows[d] # NoDocument /\ rows[d].kind = "RESUME"}

DocumentsInit(stored, source) ==
    /\ files = [d \in Documents |-> IF d \in stored THEN "stored" ELSE "none"]
    /\ documents = [d \in Documents |->
                      IF d \in stored
                      THEN [kind |-> "RESUME", primary |-> FALSE, origin |-> "IMPORTED"]
                      ELSE NoDocument]
    /\ jobSource = source
    /\ selected = NoDocument
    /\ selections = <<>>
    /\ generations = {}
    /\ submitted = {}

\* The claim's evidence source leads to bytes that still decrypt.
SourceReadable(c) == \A d \in Documents : c \in ClaimsOf[d] => files[d] = "stored"

----------------------------------------------------------------------------
(* Import: the file first, then the document, its version, its evidence    *)
(* source and the proposed claims in one commit.                           *)

\* A new document gets an identifier no other has or is about to have.
Unused(d) ==
    /\ documents[d] = NoDocument /\ files[d] = "none"
    /\ \A r \in Requests : Doing(r, "writeFile") => work[r].document # d

BeginImport(r, d, primary) ==
    /\ Unused(d)
    /\ Begin(r, [op |-> "writeFile", document |-> d, claims |-> ClaimsOf[d],
                 row |-> [kind |-> "RESUME", primary |-> primary, origin |-> "IMPORTED"],
                 cited |-> {}])
    /\ UNCHANGED <<claimVars, answerVars, documentVars>>

\* write_text of the temporary file, then replace.
WriteFile(r) ==
    /\ Doing(r, "writeFile")
    /\ files' = [files EXCEPT ![work[r].document] = "stored"]
    /\ Goes(r, [op |-> "addBundle", document |-> work[r].document, claims |-> work[r].claims,
                row |-> work[r].row, cited |-> work[r].cited])
    /\ UNCHANGED <<claimVars, answerVars, documents, jobSource, selected, selections,
                   generations, submitted>>

\* Mutant of Demoted: a primary import leaves the other documents as they are.
DemotedNone(row) == documents

\* A primary import takes the mark from the other documents of its kind.
Demoted(row) ==
    [d \in Documents |->
        IF row.primary /\ documents[d] # NoDocument /\ documents[d].kind = row.kind
        THEN [documents[d] EXCEPT !.primary = FALSE]
        ELSE documents[d]]

\* add_import_bundle or add_generated_bundle.
AddBundle(r) ==
    /\ Doing(r, "addBundle")
    /\ LET d == work[r].document IN
       /\ documents' = [Demoted(work[r].row) EXCEPT ![d] = work[r].row]
       /\ claims' = [c \in Claims |-> IF c \in work[r].claims THEN Proposal ELSE claims[c]]
       /\ generations' = IF work[r].row.origin = "GENERATED"
                         THEN generations \cup {[document |-> d, claims |-> work[r].cited]}
                         ELSE generations
    /\ Finish(r)
    /\ UNCHANGED <<chunks, answerVars, files, jobSource, selected, selections, submitted>>

\* The commit fails: the file is removed again.
BundleFails(r) ==
    /\ Doing(r, "addBundle")
    /\ files' = [files EXCEPT ![work[r].document] = "none"]
    /\ Finish(r)
    /\ UNCHANGED <<claimVars, answerVars, documents, jobSource, selected, selections,
                   generations, submitted>>

\* Other software removes or damages a stored file.
LoseFile(d) ==
    /\ files[d] = "stored" /\ documents[d] # NoDocument
    /\ files' = [files EXCEPT ![d] = "lost"]
    /\ UNCHANGED <<knowledgeVars, documents, jobSource, selected, selections, generations,
                   submitted>>

----------------------------------------------------------------------------
(* Selection outside the readiness review, and tailored documents.         *)

\* preview_document_selection: the documents it recommends from, and the
\* facts its fingerprint covers.
Recommended == ResumesIn(documents)
SelectionView == [rows |-> documents, selected |-> selected]

\* approve_document_selection compares the fingerprint the user reviewed
\* with a preview made now.  Public Greenhouse jobs go through readiness.
BeginSelection(r, d) ==
    /\ jobSource # "greenhouse-public"
    /\ d \in Recommended /\ Len(selections) < MaxAudits
    /\ Begin(r, [op |-> "select", document |-> d, view |-> SelectionView])
    /\ UNCHANGED <<claimVars, answerVars, documentVars>>

\* approve_selection: the application and the audit, in one commit.
Select(d) ==
    /\ selected' = d
    /\ selections' = Append(selections, d)

ApproveSelection(r) ==
    /\ Doing(r, "select")
    /\ Len(selections) < MaxAudits
    /\ Select(work[r].document)
    /\ Finish(r)
    /\ UNCHANGED <<claimVars, answerVars, files, documents, jobSource, generations, submitted>>

\* The claims a tailored document may be made of.
Tailorable == {c \in Claims : Locked(c) /\ claims[c].use \in ForApplications}

\* generate_tailored_document: preview, fingerprint and rendering, then the
\* bundle.  The ranking, by tokens or by the model, picks some of them.
BeginTailoring(r, d, kind, chosen) ==
    /\ Unused(d) /\ ClaimsOf[d] = {}
    /\ chosen # {} /\ chosen \subseteq Tailorable
    /\ Begin(r, [op |-> "writeFile", document |-> d, claims |-> {},
                 row |-> [kind |-> kind, primary |-> FALSE, origin |-> "GENERATED"],
                 cited |-> chosen])
    /\ UNCHANGED <<claimVars, answerVars, documentVars>>

\* capture_submitted_document looks for a row of the same upload ...
BeginCapture(r, d, upload) ==
    /\ documents[d] # NoDocument
    /\ ~\E row \in submitted : row.document = d /\ row.upload = upload
    /\ Begin(r, [op |-> "capture", document |-> d, upload |-> upload])
    /\ UNCHANGED <<claimVars, answerVars, documentVars>>

\* ... and adds one; the unique (application, version, role, upload) refuses
\* the second of two captures that both found none.
AddCapture(r) ==
    /\ Doing(r, "capture")
    /\ LET row == [document |-> work[r].document, upload |-> work[r].upload] IN
       /\ row \notin submitted
       /\ submitted' = submitted \cup {row}
    /\ Finish(r)
    /\ UNCHANGED <<claimVars, answerVars, files, documents, jobSource, selected, selections,
                   generations>>

----------------------------------------------------------------------------
DocumentOps == {"writeFile", "select", "capture"}

KeepDocuments(r) ==
    \/ \E d \in Documents, primary \in BOOLEAN : BeginImport(r, d, primary)
    \/ WriteFile(r) \/ AddBundle(r) \/ BundleFails(r)
    \/ \E d \in Documents : BeginSelection(r, d)
    \/ ApproveSelection(r)
    \/ \E d \in Documents, k \in {"RESUME", "COVER_LETTER"}, chosen \in SUBSET Claims :
          BeginTailoring(r, d, k, chosen)
    \/ \E d \in Documents, u \in Uploads : BeginCapture(r, d, u)
    \/ AddCapture(r)

----------------------------------------------------------------------------
(* Properties.                                                             *)

\* A document that the database lists has its file (unless other software
\* took it), the claims proposed from it exist, at most one document of a
\* kind is primary, and the application's selection is the last audited one.
DocumentsAreWhole ==
    /\ \A d \in Documents :
          documents[d] # NoDocument =>
             files[d] # "none" /\ \A c \in ClaimsOf[d] : claims[c].status # "ABSENT"
    /\ \A d, e \in ResumesIn(documents) :
          documents[d].primary /\ documents[e].primary => d = e
    /\ selected = IF selections = <<>> THEN NoDocument ELSE selections[Len(selections)]
=============================================================================
