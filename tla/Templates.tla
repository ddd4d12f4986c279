------------------------------ MODULE Templates ------------------------------
(***************************************************************************)
(* Job templates: the in-memory registry of pkg/jobtpl, each of whose      *)
(* operations is one step under its lock, and the template service, whose  *)
(* calls make several of them.  A template's many attributes are two: one  *)
(* that Validate requires and one that may be zero.                        *)
(***************************************************************************)
EXTENDS Integers, FiniteSets

CONSTANTS
    Callers,
    Names,
    Values,     \* the values of an attribute that are not zero
    MaxID,      \* bound: templates created
    MaxUpdates, \* bound: Update calls of the registry
    MaxJobs     \* bound: jobs created from templates

Zero == "zero"
Attributes == {"required", "optional"}
Content == [Attributes -> Values \cup {Zero}]
Valid(f) == f["required"] # Zero
None == [id |-> 0]
NoName == "no name"

VARIABLES
    templates,  \* the registry by name
    nameToID,   \* its index: the name of each ID
    nextID, updates,
    call,       \* call[c]: the service call under way
    jobs,       \* the jobs created, with what they were created from
    versions    \* history: every content that a template of a name has had

vars == <<templates, nameToID, nextID, updates, call, jobs, versions>>

NoCall == [at |-> "idle"]

Init ==
    /\ templates = [n \in Names |-> None]
    /\ nameToID = [i \in 1 .. MaxID |-> NoName]
    /\ nextID = 0 /\ updates = 0
    /\ call = [c \in Callers |-> NoCall]
    /\ jobs = {}
    /\ versions = [n \in Names |-> {}]

Exists(n) == templates[n] # None
-----------------------------------------------------------------------------
(* The registry *)

\* Create gives the next ID; the name must be new.
Create(n, f) ==
    /\ nextID < MaxID /\ nextID' = nextID + 1
    /\ ~Exists(n) /\ Valid(f)
    /\ templates' = [templates EXCEPT ![n] = [id |-> nextID', content |-> f]]
    /\ nameToID' = [nameToID EXCEPT ![nextID'] = n]
    /\ versions' = [versions EXCEPT ![n] = @ \cup {f}]
    /\ UNCHANGED <<updates, jobs>>

\* Update keeps the ID of the template that now has the name.
Update(n, f) ==
    /\ updates < MaxUpdates /\ updates' = updates + 1
    /\ Exists(n) /\ Valid(f)
    /\ templates' = [templates EXCEPT ![n].content = f]
    /\ versions' = [versions EXCEPT ![n] = @ \cup {f}]
    /\ UNCHANGED <<nameToID, nextID, jobs>>

\* Mutant of Delete: the index keeps the ID.
DeleteKeepsID(n) ==
    /\ Exists(n)
    /\ templates' = [templates EXCEPT ![n] = None]
    /\ UNCHANGED <<nameToID, nextID, updates, jobs, versions>>

Delete(n) ==
    /\ Exists(n)
    /\ templates' = [templates EXCEPT ![n] = None]
    /\ nameToID' = [nameToID EXCEPT ![templates[n].id] = NoName]
    /\ UNCHANGED <<nextID, updates, jobs, versions>>

\* An attribute that is not zero comes from the override, the rest from the template.
Coalesce(over, value) == IF over # Zero THEN over ELSE value
Overridden(f, over) == [a \in Attributes |-> Coalesce(over[a], f[a])]
-----------------------------------------------------------------------------
(* The service.  A call that returns an error leaves everything as it is. *)

\* Whether c is at a step of a call, and what it does next.
At(c, at) == call[c].at = at
Return(c) == call' = [call EXCEPT ![c] = NoCall]
Fails(c) == Return(c) /\ UNCHANGED <<templates, nameToID, nextID, updates, jobs, versions>>

CreateTemplate(c, n, f) == At(c, "idle") /\ Create(n, f) /\ UNCHANGED call

DeleteTemplate(c, n) == At(c, "idle") /\ Delete(n) /\ UNCHANGED call

\* UpdateTemplate: a copy with the request's attributes that are not zero, and later Update.
UpdateGet(c, n, req) ==
    /\ At(c, "idle") /\ Exists(n)
    /\ call' = [call EXCEPT ![c] = [at |-> "update", name |-> n,
                                    content |-> Overridden(templates[n].content, req)]]
    /\ UNCHANGED <<templates, nameToID, nextID, updates, jobs, versions>>

UpdateTemplate(c) ==
    /\ At(c, "update")
    /\ \/ Update(call[c].name, call[c].content) /\ Return(c)
       \/ ~Exists(call[c].name) /\ Fails(c)

\* Import of a template: Get tells whether Create or Update follows.
ImportGet(c, n, f) ==
    /\ At(c, "idle") /\ Valid(f)
    /\ call' = [call EXCEPT ![c] = [at |-> IF Exists(n) THEN "update" ELSE "import",
                                    name |-> n, content |-> f]]
    /\ UNCHANGED <<templates, nameToID, nextID, updates, jobs, versions>>

ImportCreate(c) ==
    /\ At(c, "import")
    /\ \/ Create(call[c].name, call[c].content) /\ Return(c)
       \/ Exists(call[c].name) /\ Fails(c)

\* InstantiateTemplate, alone or as one item of a batch, which reads the template again for
\* every item: the copy that the new job inherits from, and CreateJob, which may fail.
Instantiate(c, n, over) ==
    /\ At(c, "idle") /\ Exists(n)
    /\ call' = [call EXCEPT ![c] = [at |-> "job", name |-> n, over |-> over,
                                    content |-> Overridden(templates[n].content, over)]]
    /\ UNCHANGED <<templates, nameToID, nextID, updates, jobs, versions>>

CreateJob(c) ==
    /\ At(c, "job")
    /\ \/ /\ Cardinality(jobs) < MaxJobs
          /\ jobs' = jobs \cup {[from |-> call[c].name, over |-> call[c].over,
                                 content |-> call[c].content]}
          /\ Return(c)
          /\ UNCHANGED <<templates, nameToID, nextID, updates, versions>>
       \/ Fails(c)

Next ==
    \E c \in Callers :
        \/ UpdateTemplate(c) \/ ImportCreate(c) \/ CreateJob(c)
        \/ \E n \in Names :
             \/ DeleteTemplate(c, n)
             \/ \E f \in Content : \/ CreateTemplate(c, n, f) \/ UpdateGet(c, n, f)
                                   \/ ImportGet(c, n, f) \/ Instantiate(c, n, f)

Spec == Init /\ [][Next]_vars
-----------------------------------------------------------------------------
Template == [id : 1 .. MaxID, content : Content]

TypeOK ==
    /\ templates \in [Names -> Template \cup {None}]
    /\ nameToID \in [1 .. MaxID -> Names \cup {NoName}]
    /\ nextID \in 0 .. MaxID /\ updates \in 0 .. MaxUpdates
    /\ call \in [Callers -> {NoCall} \cup
          [at : {"update", "import"}, name : Names, content : Content] \cup
          [at : {"job"}, name : Names, over : Content, content : Content]]
    /\ jobs \in SUBSET [from : Names, over : Content, content : Content]
    /\ versions \in [Names -> SUBSET Content]

\* The two maps of the registry agree, so GetByID always finds the template of its name;
\* a template is always valid; and a job has what its override sets and inherits the rest
\* from one version of its template, whatever is updated, deleted, created again or
\* imported meanwhile (Registry, Instantiate, InstantiateTemplate).
TemplatesAgree ==
    /\ \A i \in 1 .. MaxID, n \in Names :
          nameToID[i] = n <=> Exists(n) /\ templates[n].id = i
    /\ \A n \in Names : Exists(n) => Valid(templates[n].content)
    /\ \A j \in jobs : \E f \in versions[j.from] : j.content = Overridden(f, j.over)
=============================================================================
