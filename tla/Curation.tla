------------------------------ MODULE Curation ------------------------------
(* How a benchmark case gets into a reviewed suite (tools/, evaluation/loader.py):
   a question packet is generated and approved by a human, the approved plans are
   executed into a reference packet, the packet is approved by checksum, and the
   packet's cases are promoted into one file per category.

   People edit packets between two runs of a tool; a replacement of files may
   fail half-way, a tool may be killed, and is then run again.  A case stands for
   all cases of its batch in its category; a question stands for its normalized
   text together with the signature of its plan.                              *)
EXTENDS Integers, FiniteSets, Sequences, SequencesExt

CONSTANTS Batches,      \* batches of question packets
          Organizer,    \* the batch of the organizer's suite
          Categories,   \* categories in the order the files are replaced
          Questions,
          Targets,      \* suites promoted into, of Destinations
          Historic,     \* batches whose reference packet holds evidence contexts, as
                        \* earlier releases wrote it; the others hold fact packs
          HandEdits,    \* what a hand edit does: <<set of Parts, value>>
          MaxVersion,   \* bound: versions of a reference packet
          MaxEdited,    \* bound: reference packets edited by hand
          MaxStops      \* bound: failing calls and kills

All          == Batches \cup {Organizer}
Destinations == {"canonical", "blind_development", "blind_holdout"}
Suites       == Destinations \cup {"organizer"}
Files        == Range(Categories)
\* The parts of a reference case that are compared with each other: what plan and
\* trace both state of the question, the rest of the plan, the artifact identity
\* in the packet, the trace and the evidence summaries, the evidence rows, the
\* answer, and what its context says the answer has to contain.
Parts        == {"plan", "detail", "trace", "artifact", "traceArtifact", "summaryArtifact",
                 "rows", "answer", "required"}
Values       == {"run", "other", "malformed"}    \* as the execution wrote it, or edited

ASSUME CurationAssumption ==
    /\ Organizer \notin Batches /\ IsInjective(Categories)
    /\ Targets \subseteq Destinations /\ Historic \subseteq Batches
    /\ HandEdits \subseteq (SUBSET Parts) \X Values
    /\ MaxVersion \in Nat /\ MaxEdited \in Nat /\ MaxStops \in Nat

VARIABLES
    packet,    \* batch -> question packet: [state, q : Files -> Questions]
    refs,      \* batch -> reference packet: [version, q, format, part]
    approval,  \* batch -> version whose checksum the approval names, 0 for none
    approved,  \* <<batch, version>> pairs a reviewer ever approved
    suites,    \* suite -> category -> cases
    pending,   \* <<suite, category>>: .pending.tmp files on disk
    job,       \* the promotion that runs: [batch, suite, out, made, todo]
    stops

cvars == <<packet, refs, approval, approved, suites, pending, job, stops>>

Idle      == [batch |-> Organizer, suite |-> "none", out |-> <<>>, made |-> {}, todo |-> {}]
NoRef     == [version |-> 0, q |-> <<>>, format |-> "none", part |-> <<>>]
Case(b, c)  == [id |-> <<b, c>>, version |-> refs[b].version, q |-> refs[b].q[c],
                part |-> refs[b].part]
CasesOf(s)  == UNION {suites[s][c] : c \in Files}
Asked(S)    == {x.q : x \in S}

\* _validate_candidates: one question per slot of the distribution, none twice.
CandidatesValid(q) == IsInjective(q)

\* The organizer delivers its packet approved.
CInit ==
    /\ \E q \in [Files -> Questions] :
          /\ CandidatesValid(q)
          /\ packet = [b \in All |-> IF b = Organizer THEN [state |-> "approved", q |-> q]
                                                     ELSE [state |-> "none", q |-> <<>>]]
    /\ refs = [b \in All |-> NoRef] /\ approval = [b \in All |-> 0] /\ approved = {}
    /\ suites = [s \in Suites |-> [c \in Files |-> {}]]
    /\ pending = {} /\ job = Idle /\ stops = 0

\* _validate_output_path: a packet is never overwritten.
OutputFree(b) == packet[b].state = "none"

\* generate_review_packet and write_review_packet
GeneratePacket(b) ==
    /\ job = Idle /\ OutputFree(b)
    /\ \E q \in [Files -> Questions] :
          /\ CandidatesValid(q)
          /\ packet' = [packet EXCEPT ![b] = [state |-> "pending", q |-> q]]
    /\ UNCHANGED <<refs, approval, approved, suites, pending, job, stops>>

\* A reviewer approves the questions and their draft plans.
ApproveQuestions(b) ==
    /\ job = Idle /\ packet[b].state = "pending"
    /\ packet' = [packet EXCEPT ![b].state = "approved"]
    /\ UNCHANGED <<refs, approval, approved, suites, pending, job, stops>>

\* _load_approved_packet
ApprovedPacket(b) == packet[b].state = "approved"
\* reject_draft_case_collisions: no question of a reviewed suite is asked again.
DraftFresh(b) == \A s \in Suites : Asked(CasesOf(s)) \cap Range(packet[b].q) = {}

\* _write_new_json: the packet is linked to a name that must be free.
WriteReference(b) ==
    /\ refs[b].version = 0
    /\ refs' = [refs EXCEPT ![b] = [version |-> 1, q |-> packet[b].q,
                                    format |-> IF b \in Historic THEN "evidence" ELSE "facts",
                                    part |-> [p \in Parts |-> "run"]]]

\* build_reference_packet: every approved plan is executed in one session.
BuildReference(b) ==
    /\ job = Idle /\ ApprovedPacket(b) /\ DraftFresh(b) /\ WriteReference(b)
    /\ UNCHANGED <<packet, approval, approved, suites, pending, job, stops>>

\* build_organizer_reference_packet: the packet's approval by checksum and its
\* artifact identity are checked, the other suites are not.
BuildOrganizer ==
    /\ job = Idle /\ ApprovedPacket(Organizer) /\ WriteReference(Organizer)
    /\ UNCHANGED <<packet, approval, approved, suites, pending, job, stops>>

\* Somebody edits the reference packet, well or badly, before or after its
\* approval.  A promotion has read the packet before its first step here, so an
\* edit beside it is one after it.
EditReference(b) ==
    /\ job = Idle /\ refs[b].version \in 1..(MaxVersion - 1)
    /\ Cardinality({c \in All \ {b} : refs[c].version > 1}) < MaxEdited
    /\ \E e \in HandEdits :
          refs' = [refs EXCEPT ![b].version = @ + 1,
                               ![b].part = [p \in Parts |-> IF p \in e[1] THEN e[2] ELSE @[p]]]
    /\ UNCHANGED <<packet, approval, approved, suites, pending, job, stops>>

ApproveReference(b) ==
    /\ job = Idle /\ refs[b].version > 0 /\ approval[b] # refs[b].version
    /\ approval' = [approval EXCEPT ![b] = refs[b].version]
    /\ approved' = approved \cup {<<b, refs[b].version>>}
    /\ UNCHANGED <<packet, refs, suites, pending, job, stops>>

\* Mutant: an approval of the batch is enough.
ApprovalOfBatch(b) == approval[b] > 0
\* _validate_approval: the approval names the checksum of the bytes that were read.
ApprovalValid(b) == approval[b] > 0 /\ approval[b] = refs[b].version

(* What _build_case demands of a reference case x.                            *)
Formed(x, p)      == x.part[p] # "malformed"
Agree(x, p, q)    == Formed(x, p) /\ x.part[p] = x.part[q]
\* Only intent, types, date, grain and scope of the plan are compared.
TraceHolds(x)     == Agree(x, "plan", "trace") /\ Agree(x, "artifact", "traceArtifact")
ArtifactHolds(x)  == Formed(x, "artifact")
\* Rows of an evidence context are checked for their shape, not against the answer.
RowsHold(x)       == Formed(x, "rows")
SummariesHold(x)  == Agree(x, "artifact", "summaryArtifact")
\* Every value has a registered type; two claims on one field do not differ.
ValuesHold(x)     == Formed(x, IF x.format = "facts" THEN "answer" ELSE "rows")
\* The answer is the text of its fact pack with the claims the pack requires, or
\* contains the limitations of its evidence context and the snapshot it is from.
AnswerHolds(x)    == Agree(x, "answer", "required")
CaseHolds(x)      == /\ Formed(x, "detail") /\ ArtifactHolds(x) /\ TraceHolds(x)
                     /\ x.format = "evidence" => RowsHold(x) /\ SummariesHold(x)
                     /\ AnswerHolds(x) /\ ValuesHold(x)

\* _reject_cross_suite_collisions: with the incoming cases in their suite, no
\* question is asked in two suites.
NoCollision(s, S) ==
    LET with == [x \in Suites |-> Asked(CasesOf(x) \cup (IF x = s THEN S ELSE {}))]
    IN \A x, y \in Suites : x # y => with[x] \cap with[y] = {}

Incoming(b) == {Case(b, c) : c \in Files}
\* _load_existing: every file of the suite parses and no case id is there yet.
IdsFresh(s, b) == \A x \in CasesOf(s) : x.id \notin {y.id : y \in Incoming(b)}

\* promote_reference_packet up to _replace_outputs: all of it is read and checked
\* first; prior lines stay in front of the new ones.
StartPromotion(b, s) ==
    /\ job = Idle /\ b # Organizer
    /\ ApprovalValid(b) /\ CaseHolds(refs[b]) /\ NoCollision(s, Incoming(b)) /\ IdsFresh(s, b)
    /\ job' = [batch |-> b, suite |-> s, made |-> {}, todo |-> Files,
               out |-> [c \in Files |-> suites[s][c] \cup {Case(b, c)}]]
    /\ UNCHANGED <<packet, refs, approval, approved, suites, pending, stops>>

\* promote_organizer_reference_packet: its four files are replaced as a whole;
\* the other suites are not looked at.
StartOrganizer ==
    /\ job = Idle /\ ApprovalValid(Organizer) /\ CaseHolds(refs[Organizer])
    /\ job' = [batch |-> Organizer, suite |-> "organizer", made |-> {}, todo |-> Files,
               out |-> [c \in Files |-> {Case(Organizer, c)}]]
    /\ UNCHANGED <<packet, refs, approval, approved, suites, pending, stops>>

Mine(c) == <<job.suite, c>>
\* The finally block: the pending files this run made.
Tidy == pending' = pending \ {Mine(c) : c \in job.made} /\ job' = Idle

\* Both loops take the categories in their order.
IsFirst(S, c) == \E i \in DOMAIN Categories :
                    /\ Categories[i] = c /\ c \in S
                    /\ \A j \in DOMAIN Categories : j < i => Categories[j] \notin S

\* _replace_outputs, first loop: every pending file is created exclusively.
WritePending ==
    /\ job # Idle /\ job.made # Files
    /\ \E c \in Files :
          /\ IsFirst(Files \ job.made, c)
          /\ \/ /\ Mine(c) \notin pending
                /\ pending' = pending \cup {Mine(c)}
                /\ job' = [job EXCEPT !.made = @ \cup {c}] /\ UNCHANGED stops
             \/ Mine(c) \in pending /\ Tidy /\ UNCHANGED stops
             \/ stops < MaxStops /\ stops' = stops + 1 /\ Tidy
    /\ UNCHANGED <<packet, refs, approval, approved, suites>>

\* Second loop: one rename after the other, then the finally block.
ReplaceNext ==
    /\ job # Idle /\ job.made = Files
    /\ \/ \E c \in Files :
             /\ IsFirst(job.todo, c)
             /\ suites' = [suites EXCEPT ![job.suite][c] = job.out[c]]
             /\ pending' = pending \ {Mine(c)}
             /\ job' = [job EXCEPT !.todo = @ \ {c}] /\ UNCHANGED stops
       \/ job.todo = {} /\ Tidy /\ UNCHANGED <<suites, stops>>
       \/ job.todo # {} /\ stops < MaxStops /\ stops' = stops + 1 /\ Tidy /\ UNCHANGED suites
    /\ UNCHANGED <<packet, refs, approval, approved>>

KillPromotion ==
    /\ job # Idle /\ stops < MaxStops /\ stops' = stops + 1 /\ job' = Idle
    /\ UNCHANGED <<packet, refs, approval, approved, suites, pending>>

\* load_blind_suite: all cases of its batches, or the suite is refused.
WholeBatches(s) == \A x \in CasesOf(s), c \in Files :
                      \E y \in CasesOf(s) : y.id = <<x.id[1], c>>

CNext ==
    \/ \E b \in Batches : GeneratePacket(b) \/ ApproveQuestions(b) \/ BuildReference(b)
    \/ \E b \in All : EditReference(b) \/ ApproveReference(b)
    \/ BuildOrganizer
    \/ \E b \in Batches, s \in Targets : StartPromotion(b, s)
    \/ StartOrganizer \/ WritePending \/ ReplaceNext \/ KillPromotion

CSpec == CInit /\ [][CNext]_cvars

-----------------------------------------------------------------------------
\* Whatever was edited, failed or killed: every case of a suite is one a reviewer
\* approved in exactly that version and is consistent with its own trace and
\* artifact; no case id is in a suite twice; no question is in two of the suites
\* that promote_reference_packet fills; and only a failure can leave a batch
\* half promoted (_validate_approval, _build_case, _reject_cross_suite_collisions,
\* _load_existing, _replace_outputs).
SuitesSound ==
    /\ \A s \in Suites : \A x \in CasesOf(s) :
          /\ <<x.id[1], x.version>> \in approved
          /\ x.part["trace"] = x.part["plan"] /\ x.part["traceArtifact"] = x.part["artifact"]
          /\ x.part["answer"] = x.part["required"] /\ \A p \in Parts \ {"rows", "summaryArtifact"} : Formed(x, p)
          /\ \A y \in CasesOf(s) : x.id = y.id => x = y
    /\ \A s, t \in Destinations : s # t => Asked(CasesOf(s)) \cap Asked(CasesOf(t)) = {}
    /\ stops = 0 /\ job = Idle => pending = {} /\ \A s \in Suites : WholeBatches(s)

-----------------------------------------------------------------------------
(* The inductive invariant behind SuitesSound.                                *)

\* A case in a version of those a reviewer approved, A, consistent in itself and
\* filed under category c.
CaseSound(A, x, c) ==
    /\ <<x.id[1], x.version>> \in A
    /\ x.part["trace"] = x.part["plan"] /\ x.part["traceArtifact"] = x.part["artifact"]
    /\ x.part["answer"] = x.part["required"]
    /\ \A p \in Parts \ {"rows", "summaryArtifact"} : Formed(x, p)
    /\ x.id = <<x.id[1], c>>

\* A suite on disk or one that a promotion is about to write: its cases are
\* sound and no id is in a file twice.
FilesSound(A, f) ==
    \A c \in Files : \A x \in f[c] :
       /\ CaseSound(A, x, c)
       /\ \A y \in f[c] : x.id = y.id => x = y

\* Every batch that has a case in f has one in each of its files.
FilesWhole(f) ==
    \A c, d \in Files : \A x \in f[c] : \E y \in f[d] : y.id = <<x.id[1], d>>

\* f and g ask no question in common.
FilesApart(f, g) == \A c, d \in Files : \A x \in f[c], y \in g[d] : x.q # y.q

ApprovalInv ==
    /\ approval = [b \in All |-> approval[b]]
    /\ \A b \in All : approval[b] > 0 => <<b, approval[b]>> \in approved

DiskInv ==
    /\ suites = [s \in Suites |-> [c \in Files |-> suites[s][c]]]
    /\ \A s \in Suites : FilesSound(approved, suites[s])
    /\ \A s, t \in Destinations : s # t => FilesApart(suites[s], suites[t])

\* A promotion that runs writes sound files that ask nothing another suite asks.
JobInv ==
    \/ job = Idle
    \/ /\ job = [batch |-> job.batch, suite |-> job.suite, out |-> job.out,
                 made |-> job.made, todo |-> job.todo]
       /\ job.suite \in Suites /\ job.made \subseteq Files /\ job.todo \subseteq Files
       /\ job.made # Files => job.todo = Files
       /\ FilesSound(approved, job.out)
       /\ job.suite \in Destinations =>
             \A t \in Destinations \ {job.suite} : FilesApart(job.out, suites[t])

\* Without a failure, what is pending and what is half written is the running
\* promotion's, and its end makes the suite whole.
WholeInv ==
    stops = 0 =>
       /\ job = Idle => pending = {}
       /\ \A s \in Suites \ {job.suite} : FilesWhole(suites[s])
       /\ job # Idle =>
             /\ pending = {Mine(c) : c \in job.made \cap job.todo}
             /\ FilesWhole(job.out)
             /\ \A c \in Files \ job.todo : suites[job.suite][c] = job.out[c]

CurationInv == ApprovalInv /\ DiskInv /\ JobInv /\ WholeInv /\ stops \in Nat
=============================================================================
