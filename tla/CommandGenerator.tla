-------------------------- MODULE CommandGenerator ---------------------------
(***************************************************************************)
(* Generate (generators/command.go): the goroutine that parses the         *)
(* child's output, the one that writes its input, the one that starts it   *)
(* and waits for it, and the one that kills it when the context ends; the  *)
(* child itself, a run of main.ts; and the pipe between child and parser.  *)
(*                                                                         *)
(* Output is counted in halves of documents, so that a document may be in  *)
(* the pipe by half.  Time is a context that may end at any moment.        *)
(***************************************************************************)
EXTENDS AppChart

CONSTANTS
  Apps,       \* the Applications of the instance
  Configs,    \* contents of the configuration file; Undefined: it is missing
  Junk,       \* a document that is no Kubernetes object
  Cut,        \* what is left of a document that was cut short
  Capacity,   \* halves that fit into the pipe
  MaxFaults   \* failed system calls, crashes, hangs and stray output

ASSUME GeneratorAssumption ==
  Apps \subseteq Application /\ Configs \subseteq Optional(Config)

ASSUME BoundsAssumption ==
  Capacity \in Nat \ {0} /\ MaxFaults \in Nat

VARIABLES
  app, config, \* what main.ts is given
  main,        \* the goroutine of Generate
  encoder,     \* the goroutine that writes the input and closes the pipe
  starter,     \* the goroutine that calls Start and Wait
  killer,      \* the goroutine that waits for the context or for Wait
  ctxDone,     \* the context is cancelled or its time is over
  child,       \* the child process
  exit,        \* its exit status
  out,         \* the documents it prints
  stderr,      \* something is on standard error
  written,     \* halves written into the pipe
  read,        \* halves taken out of it
  closed,      \* the operator's end of the pipe is closed
  parseErr,    \* the error of ParseUnstructuredAll
  execErr,     \* the error of Start or Wait
  objs,        \* the documents parsed
  result,      \* what Generate returns
  faults

input == <<app, config>>
process == <<child, exit, out, stderr>>
pipe == <<written, read, closed>>
outcome == <<parseErr, execErr, objs, result>>
vars == <<input, main, encoder, starter, killer, ctxDone, process, pipe, outcome, faults>>

Pending == <<"pending">>
Failed == <<"failed">>
Ok(documents) == <<"ok", documents>>

SpendFault == faults < MaxFaults /\ faults' = faults + 1

Alive == child \in {"reads", "prints", "stuck"}

-----------------------------------------------------------------------------
Init ==
  /\ app \in Apps
  /\ config \in Configs
  /\ main = "setup"
  /\ encoder = "none"
  /\ starter = "none"
  /\ killer = "none"
  /\ ctxDone = FALSE
  /\ child = "none"
  /\ exit = 0
  /\ out = <<>>
  /\ stderr = FALSE
  /\ written = 0
  /\ read = 0
  /\ closed = FALSE
  /\ parseErr = FALSE
  /\ execErr = FALSE
  /\ objs = <<>>
  /\ result = Pending
  /\ faults = 0

-----------------------------------------------------------------------------
(* The goroutines of Generate                                              *)

\* StdinPipe fails before any goroutine runs, StdoutPipe after the encoder
\* was started.
OpenPipes ==
  /\ main = "setup"
  /\ \/ /\ main' = "parse"
        /\ encoder' = "encode"
        /\ starter' = "start"
        /\ UNCHANGED <<result, faults>>
     \/ /\ SpendFault
        /\ main' = "returned"
        /\ encoder' \in {"none", "encode"}
        /\ result' = Failed
        /\ UNCHANGED starter
  /\ UNCHANGED <<input, killer, ctxDone, process, pipe, parseErr, execErr, objs>>

\* The Application goes into the pipe in one write, which nobody checks.
Encode ==
  /\ encoder = "encode"
  /\ encoder' = "done"
  /\ UNCHANGED <<input, main, starter, killer, ctxDone, process, pipe, outcome, faults>>

Start ==
  /\ starter = "start"
  /\ \/ /\ starter' = "wait"
        /\ killer' = "select"
        /\ child' = "reads"
        /\ UNCHANGED <<closed, execErr, faults>>
     \/ /\ SpendFault
        /\ starter' = "done"
        /\ closed' = TRUE
        /\ execErr' = TRUE
        /\ UNCHANGED <<killer, child>>
  /\ UNCHANGED <<input, main, encoder, ctxDone, exit, out, stderr, written, read, parseErr,
                 objs, result>>

\* Mutant: the exit status is not looked at.
WaitIgnoringStatus ==
  /\ starter = "wait"
  /\ child = "exited"
  /\ starter' = "done"
  /\ closed' = TRUE
  /\ UNCHANGED <<input, main, encoder, killer, ctxDone, process, written, read, parseErr,
                 execErr, objs, result, faults>>

\* Wait reaps the child and closes the operator's end of the pipe, whatever
\* the parser has still to read.  Then the goroutine tells the killer.
Wait ==
  /\ starter = "wait"
  /\ child = "exited"
  /\ starter' = "done"
  /\ closed' = TRUE
  /\ execErr' = (exit # 0)
  /\ UNCHANGED <<input, main, encoder, killer, ctxDone, process, written, read, parseErr,
                 objs, result, faults>>

\* Mutant: nobody kills the child.
NoKill ==
  /\ killer = "select"
  /\ ctxDone
  /\ killer' = "done"
  /\ UNCHANGED <<input, main, encoder, starter, ctxDone, process, pipe, outcome, faults>>

\* A child that has exited is not touched.
Kill ==
  /\ killer = "select"
  /\ ctxDone
  /\ killer' = "done"
  /\ IF Alive
     THEN child' = "exited" /\ exit' = 9
     ELSE UNCHANGED <<child, exit>>
  /\ UNCHANGED <<input, main, encoder, starter, ctxDone, out, stderr, pipe, outcome, faults>>

KillerDone ==
  /\ killer = "select"
  /\ starter = "done"
  /\ killer' = "done"
  /\ UNCHANGED <<input, main, encoder, starter, ctxDone, process, pipe, outcome, faults>>

-----------------------------------------------------------------------------
(* ParseUnstructuredAll                                                    *)

\* The parser's loop is over.
Parsed(error, documents) ==
  /\ main' = "wait"
  /\ parseErr' = error
  /\ objs' = documents

\* Half a document arrives; a whole one is decoded.
Read ==
  /\ main = "parse"
  /\ ~closed
  /\ read < written
  /\ read' = read + 1
  /\ IF (read + 1) % 2 = 0
     THEN LET document == out[(read + 1) \div 2] IN
          IF document = Junk
          THEN Parsed(TRUE, <<>>)
          ELSE objs' = Append(objs, Decoded(document)) /\ UNCHANGED <<main, parseErr>>
     ELSE UNCHANGED <<main, parseErr, objs>>
  /\ UNCHANGED <<input, encoder, starter, killer, ctxDone, process, written, closed, execErr,
                 result, faults>>

\* Nobody can write any more and the pipe is empty.  Half a document at the
\* end is an error, or a document that lacks something.
ReadEOF ==
  /\ main = "parse"
  /\ ~closed
  /\ child = "exited"
  /\ read = written
  /\ \/ read % 2 = 0 /\ Parsed(FALSE, objs)
     \/ read % 2 = 1 /\ Parsed(FALSE, Append(objs, Cut))
     \/ read % 2 = 1 /\ Parsed(TRUE, <<>>)
  /\ UNCHANGED <<input, encoder, starter, killer, ctxDone, process, pipe, execErr, result,
                 faults>>

\* Mutant: the parser takes any error for the end of the output.
ReadClosedAsEOF ==
  /\ main = "parse"
  /\ closed
  /\ Parsed(FALSE, objs)
  /\ UNCHANGED <<input, encoder, starter, killer, ctxDone, process, pipe, execErr, result,
                 faults>>

\* "file already closed"
ReadClosed ==
  /\ main = "parse"
  /\ closed
  /\ Parsed(TRUE, <<>>)
  /\ UNCHANGED <<input, encoder, starter, killer, ctxDone, process, pipe, execErr, result,
                 faults>>

\* wg.Wait is over.  The error of the child replaces the parser's.
Return ==
  /\ main = "wait"
  /\ starter = "done"
  /\ main' = "returned"
  /\ result' = IF execErr \/ parseErr \/ (objs = <<>> /\ stderr) THEN Failed ELSE Ok(objs)
  /\ UNCHANGED <<input, encoder, starter, killer, ctxDone, process, pipe, parseErr, execErr,
                 objs, faults>>

-----------------------------------------------------------------------------
(* The child, and time                                                     *)

\* main.ts has read its input to the end, which the encoder's Close makes.
\* A library that logs to standard output spoils it.
Load ==
  /\ child = "reads"
  /\ encoder = "done"
  /\ child' = "prints"
  /\ LET documents == Main(app, config) IN
     /\ \/ out' = documents /\ UNCHANGED faults
        \/ out' = <<Junk>> \o documents /\ SpendFault
     /\ stderr' = (documents = <<>>)
  /\ UNCHANGED <<input, main, encoder, starter, killer, ctxDone, exit, pipe, outcome>>

\* A write blocks while the pipe is full.
WriteOutput ==
  /\ child = "prints"
  /\ written < 2 * Len(out)
  /\ written - read < Capacity
  /\ written' = written + 1
  /\ UNCHANGED <<input, main, encoder, starter, killer, ctxDone, process, read, closed,
                 outcome, faults>>

\* Node 12 exits with 0 after a rejected promise, too.
Exit ==
  /\ child = "prints"
  /\ written = 2 * Len(out)
  /\ child' = "exited"
  /\ UNCHANGED <<input, main, encoder, starter, killer, ctxDone, exit, out, stderr, pipe,
                 outcome, faults>>

\* The child runs out of memory, or cannot be loaded.
Crash ==
  /\ Alive
  /\ SpendFault
  /\ child' = "exited"
  /\ exit' = 1
  /\ stderr' \in {stderr, TRUE}
  /\ UNCHANGED <<input, main, encoder, starter, killer, ctxDone, out, pipe, outcome>>

Hang ==
  /\ child \in {"reads", "prints"}
  /\ SpendFault
  /\ child' = "stuck"
  /\ UNCHANGED <<input, main, encoder, starter, killer, ctxDone, exit, out, stderr, pipe,
                 outcome>>

\* The minute of the reconciliation is over.
Timeout ==
  /\ ~ctxDone
  /\ ctxDone' = TRUE
  /\ UNCHANGED <<input, main, encoder, starter, killer, process, pipe, outcome, faults>>

Next ==
  \/ OpenPipes
  \/ Encode
  \/ Start
  \/ Wait
  \/ Kill
  \/ KillerDone
  \/ Read
  \/ ReadEOF
  \/ ReadClosed
  \/ Return
  \/ Load
  \/ WriteOutput
  \/ Exit
  \/ Crash
  \/ Hang
  \/ Timeout

Spec == Init /\ [][Next]_vars

\* Every goroutine runs on, the context's minute ends, and a child that is
\* not stuck runs on.
Fairness ==
  /\ WF_vars(OpenPipes) /\ WF_vars(Encode) /\ WF_vars(Start) /\ WF_vars(Wait)
  /\ WF_vars(Kill) /\ WF_vars(KillerDone)
  /\ WF_vars(Read) /\ WF_vars(ReadEOF) /\ WF_vars(ReadClosed) /\ WF_vars(Return)
  /\ WF_vars(Load) /\ WF_vars(WriteOutput) /\ WF_vars(Exit) /\ WF_vars(Timeout)

FairSpec == Spec /\ Fairness

-----------------------------------------------------------------------------
(* Properties                                                              *)

Documents == Main(app, config)
Returned == main = "returned"

\* Every variable stays in its type, and what the chart prints has the types
\* of k8s.ts; the parser is never ahead of the child, nor the child further
\* ahead than the pipe is long.
TypeOK ==
  /\ app \in Apps /\ config \in Configs
  /\ main \in {"setup", "parse", "wait", "returned"}
  /\ encoder \in {"none", "encode", "done"}
  /\ starter \in {"none", "start", "wait", "done"}
  /\ killer \in {"none", "select", "done"}
  /\ child \in {"none", "reads", "prints", "stuck", "exited"}
  /\ exit \in {0, 1, 9}
  /\ ctxDone \in BOOLEAN /\ stderr \in BOOLEAN /\ closed \in BOOLEAN
  /\ parseErr \in BOOLEAN /\ execErr \in BOOLEAN
  /\ \A i \in DOMAIN out : out[i] = Junk \/ IsApiObject(out[i])
  /\ written \in 0..(2 * Len(out))
  /\ read \in 0..written /\ written <= read + Capacity
  /\ faults \in Nat

\* "len(res) == 0 && stderr.Len() != 0": Generate returns either an error or
\* all objects of the chart and nothing else, although the child may die, be
\* killed, be cut off or say something else on its output at any point.
OutputIsWhole ==
  Returned /\ result # Failed =>
    /\ Documents # <<>>
    /\ result = Ok([i \in DOMAIN Documents |-> Decoded(Documents[i])])

\* The first n documents as the parser decodes them.
Taken(n) == [i \in 1..n |-> Decoded(out[i])]

\* What the child prints, and what it has printed when it exits with 0.
OutInv ==
  /\ out \in {<<>>, Documents, <<Junk>> \o Documents}
  /\ child \in {"none", "reads"} => out = <<>> /\ written = 0
  /\ child # "exited" => exit = 0
  /\ (child = "prints" \/ (child = "exited" /\ exit = 0)) =>
       out \in {Documents, <<Junk>> \o Documents} /\ stderr = (Documents = <<>>)
  /\ child = "exited" /\ exit = 0 => written = 2 * Len(out)

\* No error of Start or Wait: the child exited with 0.
WaitInv ==
  /\ main = "setup" => starter = "none"
  /\ starter \in {"none", "start"} => child = "none"
  /\ starter = "done" /\ ~execErr => child = "exited" /\ exit = 0

\* No error of the parser: it has decoded all that the child printed.
ParserInv ==
  /\ main \in {"setup", "parse"} =>
       objs = Taken(read \div 2) /\ \A i \in 1..(read \div 2) : out[i] # Junk
  /\ main = "wait" /\ ~parseErr =>
       /\ child = "exited"
       /\ exit = 0 => objs = Taken(Len(out)) /\ \A i \in 1..Len(out) : out[i] # Junk
  /\ (result = Pending) = ~Returned

\* The strengthening of OutputIsWhole that every step preserves: child, Wait
\* and parser agree on what was printed.
IInv == TypeOK /\ OutInv /\ WaitInv /\ ParserInv /\ OutputIsWhole

\* Kubernetes: the API server refuses an object whose fields have not its types.
Accepted(documents) == \A i \in DOMAIN documents : IsApiObject(documents[i])

\* Kubernetes: host's requests for "/" reach a container of the image.
Reaches(documents, host, image) ==
  \E i, s, d \in DOMAIN documents :
    LET ingress == documents[i]
        service == documents[s]
        deployment == documents[d]
    IN
    /\ ingress.kind = "Ingress" /\ service.kind = "Service" /\ deployment.kind = "Deployment"
    /\ ingress.metadata.namespace = service.metadata.namespace
    /\ service.metadata.namespace = deployment.metadata.namespace
    /\ Selects(deployment.spec.selector.matchLabels, deployment.spec.template.metadata.labels)
    /\ Selects(service.spec.selector, deployment.spec.template.metadata.labels)
    /\ \E r \in DOMAIN ingress.spec.rules :
         LET rule == ingress.spec.rules[r]
             path == rule.http.paths[1]
             port == service.spec.ports[1]
             container == deployment.spec.template.spec.containers[1]
         IN  /\ rule.host = host /\ path.path = "/"
             /\ path.backend.serviceName = service.metadata.name
             /\ path.backend.servicePort = port.port
             /\ port.targetPort = container.ports[1].containerPort
             /\ container.image = image
    /\ \E t \in DOMAIN ingress.spec.tls :
         \E h \in DOMAIN ingress.spec.tls[t].hosts : ingress.spec.tls[t].hosts[h] = host

\* "Deployed Web Application generating Deployment, Service, Ingress": what is
\* generated hangs together, so that every domain leads to the image, when the
\* API server takes it.
DomainsAreServed ==
  Returned /\ result # Failed /\ Accepted(result[2]) =>
    LET image == IF app.spec.image = Undefined THEN "modokipaas/no-app" ELSE app.spec.image
    IN  \A d \in DOMAIN app.spec.domains : Reaches(result[2], app.spec.domains[d], image)

Identity(object) == <<object.kind, object.metadata.namespace, object.metadata.name>>

\* The pods of an object, and those it is responsible for.
Pods(object) == object.spec.template.metadata.labels
Selector(object) ==
  IF object.kind = "Service" THEN object.spec.selector ELSE object.spec.selector.matchLabels

\* Two Applications have no object in common, and neither takes pods of the
\* other for its own, whatever their specs and namespaces: of the objects that
\* the API server takes.
AppsAreIsolated ==
  Returned /\ result # Failed =>
    \A other \in Apps, rawConfig \in Configs :
      other.metadata # app.metadata =>
        LET theirs == Main(other, rawConfig) IN
        \A i \in DOMAIN result[2], j \in DOMAIN theirs :
          LET mine == result[2][i]
              their == Decoded(theirs[j])
          IN
          Accepted(<<mine, their>>) =>
            /\ Identity(mine) # Identity(their)
            /\ (/\ mine.kind \in {"Service", "Deployment"} /\ their.kind = "Deployment"
                /\ mine.metadata.namespace = their.metadata.namespace)
                 => ~Selects(Selector(mine), Pods(their))

\* The operator patches the objects it finds under the generated names; the
\* selector of a Deployment cannot be patched.  So an edit must generate the
\* same objects, and leave the selector alone.
EditsPatchInPlace ==
  Returned /\ result # Failed =>
    \A edited \in Apps, rawConfig \in Configs :
      (edited.metadata = app.metadata /\ Main(edited, rawConfig) # <<>>) =>
        LET after == Main(edited, rawConfig) IN
        /\ DOMAIN after = DOMAIN result[2]
        /\ \A i \in DOMAIN after :
             /\ Identity(Decoded(after[i])) = Identity(result[2][i])
             /\ after[i].kind # "Ingress" =>
                  Selector(Decoded(after[i])) = Selector(result[2][i])

\* What was last applied, from which a patch is computed, is written into the
\* annotations of every object; they read as no map at all, and the write
\* panics, when one of them is no text.  That happens for every Application
\* when the configuration has such an annotation, and for nothing else.
AnnotationsTakeLastApplied ==
  Returned /\ result # Failed =>
    LET configured == config.ingressAnnotations IN
    (\A i \in DOMAIN result[2] : result[2][i].metadata.annotations \in StringMap)
      <=> (configured = Undefined \/ \A k \in Key : configured[k] \notin Misread)

\* Generate returns, and leaves no goroutine and no process behind: also when
\* the child hangs, or blocks on a pipe that the parser has given up.
Returns ==
  <>[](Returned /\ encoder # "encode" /\ killer # "select" /\ ~Alive)

-----------------------------------------------------------------------------
(* Statements of the sources that the code does not keep                   *)

\* "failed to generate": a child that has printed its documents and exited
\* with 0, in time, is no failure.
PrintedIsReturned ==
  (Returned /\ faults = 0 /\ ~ctxDone /\ Documents # <<>>) => result # Failed
=============================================================================
