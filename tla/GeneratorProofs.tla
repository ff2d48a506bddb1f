--------------------------- MODULE GeneratorProofs ----------------------------
(***************************************************************************)
(* The result of Generate, for every Application, every configuration,     *)
(* every size of the pipe and any number of faults: an error, or all that  *)
(* the chart makes of the Application, of the right types, that serves     *)
(* every domain and keeps apart from other Applications.                   *)
(***************************************************************************)
EXTENDS CommandGenerator, ChartProofs

\* What main.ts prints is a sequence.
LEMMA DocumentsSeq ==
  ASSUME NEW a, NEW c
  PROVE  Len(Main(a, c)) \in Nat /\ DOMAIN Main(a, c) = 1..Len(Main(a, c))
BY MainShape

\* A stray document in front stays there.
LEMMA StrayIsFirst ==
  ASSUME NEW a, NEW c
  PROVE  LET stray == <<Junk>> \o Main(a, c)
         IN  /\ Len(stray) \in Nat /\ DOMAIN stray = 1..Len(stray)
             /\ 1 \in 1..Len(stray) /\ stray[1] = Junk
             /\ \A i \in DOMAIN stray : i # 1 =>
                  i - 1 \in DOMAIN Main(a, c) /\ stray[i] = Main(a, c)[i - 1]
BY MainShape

LEMMA OutLen ==
  ASSUME OutInv
  PROVE  Len(out) \in Nat /\ DOMAIN out = 1..Len(out)
BY DocumentsSeq, StrayIsFirst DEF OutInv, Documents

\* Every second half completes a document.
LEMMA Halves ==
  ASSUME NEW n \in Nat
  PROVE  /\ n \div 2 \in Nat
         /\ (2 * n) \div 2 = n /\ (2 * n) % 2 = 0
         /\ (n + 1) % 2 \in {0, 1}
         /\ (n + 1) % 2 = 1 => (n + 1) \div 2 = n \div 2
         /\ (n + 1) % 2 = 0 => (n + 1) \div 2 = (n \div 2) + 1
OBVIOUS

LEMMA InitInv ==
  ASSUME Init
  PROVE  IInv
<1>1. TypeOK
  <2>1. out = <<>> /\ Len(out) = 0 /\ DOMAIN out = {}
    BY DEF Init
  <2>2. written \in 0..(2 * Len(out)) /\ read \in 0..written /\ written <= read + Capacity
    BY <2>1, BoundsAssumption DEF Init
  <2> QED
    BY <2>1, <2>2 DEF Init, TypeOK
<1>2. OutInv
  BY DEF Init, OutInv
<1>3. WaitInv /\ ParserInv /\ OutputIsWhole
  BY DEF Init, WaitInv, ParserInv, Taken, OutputIsWhole, Returned, Pending
<1> QED
  BY <1>1, <1>2, <1>3 DEF IInv

LEMMA StepInv ==
  ASSUME IInv, [Next]_vars
  PROVE  IInv'
<1> USE DEF IInv
<1>1. CASE OpenPipes
  <2> USE <1>1 DEF OpenPipes, input, process, pipe, SpendFault
  <2>1. TypeOK'
    BY DEF TypeOK
  <2>2. OutInv' /\ WaitInv'
    BY DEF OutInv, WaitInv, Documents
  <2>3. ParserInv' /\ OutputIsWhole'
    BY DEF ParserInv, OutputIsWhole, Taken, Returned, Pending, Failed, WaitInv, OutInv
  <2> QED
    BY <2>1, <2>2, <2>3
<1>2. CASE Encode
  <2> USE <1>2 DEF Encode, input, process, pipe, outcome
  <2>1. TypeOK'
    BY DEF TypeOK
  <2>2. OutInv' /\ WaitInv'
    BY DEF OutInv, WaitInv, Documents
  <2>3. ParserInv' /\ OutputIsWhole'
    BY DEF ParserInv, OutputIsWhole, Taken, Returned, Documents
  <2> QED
    BY <2>1, <2>2, <2>3
<1>3. CASE Start
  <2>1. UNCHANGED <<app, config, main, encoder, ctxDone, exit, out, stderr, written, read,
                    parseErr, objs, result>>
    BY <1>3 DEF Start, input
  <2>2. /\ starter' \in {"wait", "done"} /\ killer' \in {"none", "select", "done"}
        /\ child' \in {"reads", child} /\ closed' \in BOOLEAN /\ execErr' \in BOOLEAN
        /\ faults' \in Nat /\ (starter' = "done" => execErr')
        /\ child = "none" /\ main # "setup"
    <3>1. /\ child = "none" /\ main # "setup" /\ faults \in Nat
          /\ closed \in BOOLEAN /\ execErr \in BOOLEAN /\ killer \in {"none", "select", "done"}
      BY <1>3 DEF Start, TypeOK, WaitInv
    <3>2. CASE starter' = "wait"
      BY <1>3, <3>1, <3>2 DEF Start
    <3>3. CASE starter' = "done"
      BY <1>3, <3>1, <3>3 DEF Start, SpendFault
    <3> QED
      BY <1>3, <3>2, <3>3 DEF Start
  <2>3. TypeOK'
    BY <2>1, <2>2 DEF TypeOK
  <2>4. OutInv' /\ WaitInv'
    BY <2>1, <2>2 DEF OutInv, WaitInv, Documents
  <2>5. ParserInv' /\ OutputIsWhole'
    BY <2>1, <2>2 DEF ParserInv, OutputIsWhole, Taken, Returned, Documents
  <2> QED
    BY <2>3, <2>4, <2>5
<1>4. CASE Wait
  <2> USE <1>4 DEF Wait, input, process, pipe
  <2>1. TypeOK'
    BY DEF TypeOK
  <2>2. OutInv' /\ WaitInv'
    BY DEF OutInv, WaitInv, Documents, TypeOK
  <2>3. ParserInv' /\ OutputIsWhole'
    BY DEF ParserInv, OutputIsWhole, Taken, Returned, Documents
  <2> QED
    BY <2>1, <2>2, <2>3
<1>5. CASE Kill
  <2> USE <1>5 DEF Kill, input, pipe, outcome, Alive
  <2>1. TypeOK'
    BY DEF TypeOK
  <2>2. OutInv' /\ WaitInv'
    BY DEF OutInv, WaitInv, Documents
  <2>3. ParserInv' /\ OutputIsWhole'
    BY DEF ParserInv, OutputIsWhole, Taken, Returned, Documents
  <2> QED
    BY <2>1, <2>2, <2>3
<1>6. CASE KillerDone
  <2> USE <1>6 DEF KillerDone, input, process, pipe, outcome
  <2>1. TypeOK'
    BY DEF TypeOK
  <2>2. OutInv' /\ WaitInv'
    BY DEF OutInv, WaitInv, Documents
  <2>3. ParserInv' /\ OutputIsWhole'
    BY DEF ParserInv, OutputIsWhole, Taken, Returned, Documents
  <2> QED
    BY <2>1, <2>2, <2>3
<1>7. CASE Read
  <2> USE <1>7 DEF Read
  <2>1. UNCHANGED <<app, config, encoder, starter, killer, ctxDone, child, exit, out, stderr,
                    written, closed, execErr, result, faults>>
    BY DEF input, process
  <2>2. /\ read' = read + 1 /\ read \in Nat /\ written \in Nat /\ read < written
        /\ read' \in 0..written /\ written <= read' + Capacity /\ main = "parse"
    BY BoundsAssumption, OutLen DEF TypeOK
  <2>3. TypeOK'
    <3>1. main' \in {"parse", "wait"} /\ parseErr' \in BOOLEAN
      BY DEF Parsed, TypeOK
    <3> HIDE <1>7 DEF Read
    <3> QED
      BY <2>1, <2>2, <3>1 DEF TypeOK
  <2>4. OutInv' /\ WaitInv'
    <3>1. main' # "setup"
      BY DEF Parsed
    <3> HIDE <1>7 DEF Read
    <3> QED
      BY <2>1, <2>2, <3>1 DEF OutInv, WaitInv, Documents
  <2>5. ParserInv'
    <3>1. objs = Taken(read \div 2) /\ \A i \in 1..(read \div 2) : out[i] # Junk
      BY DEF ParserInv
    <3>2. (result' = Pending) = ~Returned'
      BY <2>1 DEF Parsed, ParserInv, Returned
    <3>3. CASE read' % 2 = 1
      <4>1. read' \div 2 = read \div 2 /\ main' = main /\ objs' = objs /\ parseErr' = parseErr
        <5>1. (read + 1) % 2 # 0
          BY <2>2, <3>3
        <5>2. (read + 1) \div 2 = read \div 2
          BY <2>2, <3>3, Halves
        <5> QED
          BY <2>2, <5>1, <5>2
      <4> QED
        BY <2>1, <2>2, <3>1, <3>2, <4>1 DEF ParserInv, Taken
    <3>4. CASE read' % 2 = 0 /\ out[read' \div 2] = Junk
      BY <2>2, <3>2, <3>4 DEF Parsed, ParserInv
    <3>5. CASE read' % 2 = 0 /\ out[read' \div 2] # Junk
      <4> DEFINE n == read \div 2
      <4>1. read' \div 2 = n + 1 /\ n \in Nat
        BY <2>2, <3>5, Halves
      <4>2. /\ main' = main /\ parseErr' = parseErr
            /\ objs' = Append(objs, Decoded(out[n + 1]))
        BY <2>2, <3>5, <4>1
      <4>3. objs' = Taken(n + 1)
        BY <3>1, <4>1, <4>2 DEF Taken
      <4>4. \A i \in 1..(n + 1) : out[i] # Junk
        BY <3>1, <3>5, <4>1
      <4> QED
        BY <2>1, <2>2, <3>2, <4>1, <4>2, <4>3, <4>4 DEF ParserInv, Taken
    <3> QED
      BY <2>2, <3>3, <3>4, <3>5, Halves
  <2>6. OutputIsWhole'
    BY DEF Parsed, OutputIsWhole, Returned
  <2> QED
    BY <2>3, <2>4, <2>5, <2>6
<1>8. CASE ReadEOF
  <2>1. UNCHANGED <<app, config, encoder, starter, killer, ctxDone, child, exit, out, stderr,
                    written, read, closed, execErr, result, faults>>
    BY <1>8 DEF ReadEOF, input, process, pipe
  <2>2. /\ main = "parse" /\ main' = "wait" /\ parseErr' \in BOOLEAN
        /\ child = "exited" /\ read = written
        /\ (read % 2 = 0 /\ ~parseErr') => objs' = objs
    <3>1. main = "parse" /\ child = "exited" /\ read = written
      BY <1>8 DEF ReadEOF
    <3>2. CASE read % 2 = 0 /\ Parsed(FALSE, objs)
      BY <3>1, <3>2 DEF Parsed
    <3>3. CASE read % 2 = 1 /\ (Parsed(FALSE, Append(objs, Cut)) \/ Parsed(TRUE, <<>>))
      <4>1. read % 2 # 0
        BY <3>3
      <4>2. main' = "wait" /\ parseErr' \in BOOLEAN
        BY <3>3 DEF Parsed
      <4> QED
        BY <3>1, <4>1, <4>2
    <3> QED
      BY <1>8, <3>2, <3>3 DEF ReadEOF
  <2>3. TypeOK'
    BY <2>1, <2>2 DEF TypeOK
  <2>4. OutInv' /\ WaitInv'
    BY <2>1, <2>2 DEF OutInv, WaitInv, Documents
  <2>5. ASSUME exit = 0, ~parseErr'
        PROVE  objs' = Taken(Len(out)) /\ \A i \in 1..Len(out) : out[i] # Junk
    <3>1. read = 2 * Len(out)
      BY <2>2, <2>5 DEF OutInv
    <3>2. read \div 2 = Len(out) /\ read % 2 = 0
      BY <3>1, OutLen, Halves
    <3> QED
      BY <2>2, <2>5, <3>2 DEF ParserInv
  <2>6. ParserInv' /\ OutputIsWhole'
    BY <2>1, <2>2, <2>5 DEF ParserInv, OutputIsWhole, Taken, Returned
  <2> QED
    BY <2>3, <2>4, <2>6
<1>9. CASE ReadClosed
  <2>1. UNCHANGED <<app, config, encoder, starter, killer, ctxDone, child, exit, out, stderr,
                    written, read, closed, execErr, result, faults>>
    BY <1>9 DEF ReadClosed, input, process, pipe
  <2>2. main = "parse" /\ main' = "wait" /\ parseErr'
    BY <1>9 DEF ReadClosed, Parsed
  <2>3. TypeOK'
    BY <2>1, <2>2 DEF TypeOK
  <2>4. OutInv' /\ WaitInv'
    BY <2>1, <2>2 DEF OutInv, WaitInv, Documents
  <2>5. ParserInv' /\ OutputIsWhole'
    BY <2>1, <2>2 DEF ParserInv, OutputIsWhole, Taken, Returned
  <2> QED
    BY <2>3, <2>4, <2>5
<1>10. CASE Return
  <2>1. UNCHANGED <<app, config, encoder, starter, killer, ctxDone, child, exit, out, stderr,
                    written, read, closed, execErr, parseErr, objs, faults>>
    BY <1>10 DEF Return, input, process, pipe
  <2>2. /\ main = "wait" /\ main' = "returned" /\ starter = "done"
        /\ result' = IF execErr \/ parseErr \/ (objs = <<>> /\ stderr)
                     THEN Failed ELSE Ok(objs)
    BY <1>10 DEF Return
  <2>3. TypeOK'
    BY <2>1, <2>2 DEF TypeOK
  <2>4. OutInv' /\ WaitInv'
    BY <2>1, <2>2 DEF OutInv, WaitInv, Documents
  <2>5. ParserInv'
    BY <2>1, <2>2 DEF ParserInv, Returned, Pending, Failed, Ok
  <2>6. OutputIsWhole'
    <3> SUFFICES ASSUME result' # Failed
                 PROVE  /\ Documents # <<>>
                        /\ Ok(objs) = Ok([i \in DOMAIN Documents |-> Decoded(Documents[i])])
      BY <2>1, <2>2 DEF OutputIsWhole, Documents
    <3>1. ~execErr /\ ~parseErr /\ ~(objs = <<>> /\ stderr)
      BY <2>2
    <3>2. /\ out \in {Documents, <<Junk>> \o Documents} /\ stderr = (Documents = <<>>)
          /\ objs = Taken(Len(out)) /\ \A i \in 1..Len(out) : out[i] # Junk
      BY <2>2, <3>1 DEF OutInv, WaitInv, ParserInv
    <3>3. out = Documents
      BY <3>2, StrayIsFirst DEF Documents
    <3>4. objs = [i \in DOMAIN Documents |-> Decoded(Documents[i])]
      BY <3>2, <3>3, DocumentsSeq DEF Taken, Documents
    <3>5. Documents = <<>> => objs = <<>>
      BY <3>4
    <3> QED
      BY <3>1, <3>2, <3>4, <3>5
  <2> QED
    BY <2>3, <2>4, <2>5, <2>6
<1>11. CASE Load
  <2>1. UNCHANGED <<app, config, main, encoder, starter, killer, ctxDone, exit, written, read,
                    closed, parseErr, execErr, objs, result>>
    BY <1>11 DEF Load, input, pipe, outcome
  <2>2. /\ child = "reads" /\ child' = "prints"
        /\ out' \in {Documents, <<Junk>> \o Documents} /\ stderr' = (Documents = <<>>)
        /\ faults' \in Nat
    BY <1>11 DEF Load, Documents, SpendFault, TypeOK
  <2>3. exit = 0 /\ out = <<>> /\ written = 0 /\ read = 0
    BY <2>2 DEF OutInv, TypeOK
  <2>4. OutInv' /\ WaitInv'
    BY <2>1, <2>2, <2>3 DEF OutInv, WaitInv, Documents
  <2>5. TypeOK'
    <3>1. \A i \in DOMAIN out' : out'[i] = Junk \/ IsApiObject(out'[i])
      <4>1. app \in Application /\ config \in Optional(Config)
        BY GeneratorAssumption DEF TypeOK
      <4>2. \A i \in DOMAIN Documents : IsApiObject(Documents[i])
        BY <4>1, MainType DEF Documents
      <4> QED
        BY <2>2, <4>2, StrayIsFirst DEF Documents
    <3>2. Len(out') \in Nat
      BY <2>2, DocumentsSeq, StrayIsFirst DEF Documents
    <3>3. /\ written' \in 0..(2 * Len(out')) /\ read' \in 0..written'
          /\ written' <= read' + Capacity
      BY <2>1, <2>3, <3>2, BoundsAssumption
    <3> QED
      BY <2>1, <2>2, <3>1, <3>3 DEF TypeOK
  <2>6. ParserInv' /\ OutputIsWhole'
    <3>1. 1..(read \div 2) = {}
      BY <2>3
    <3> QED
      BY <2>1, <2>2, <2>3, <3>1 DEF ParserInv, OutputIsWhole, Taken, Returned, Documents
  <2> QED
    BY <2>4, <2>5, <2>6
<1>12. CASE WriteOutput
  <2>1. UNCHANGED <<app, config, main, encoder, starter, killer, ctxDone, child, exit, out,
                    stderr, read, closed, parseErr, execErr, objs, result, faults>>
    BY <1>12 DEF WriteOutput, input, process, outcome
  <2>2. child = "prints" /\ written' = written + 1
    BY <1>12 DEF WriteOutput
  <2>3. TypeOK'
    <3>1. /\ written' \in 0..(2 * Len(out')) /\ read' \in 0..written'
          /\ written' <= read' + Capacity
      BY <1>12, <2>1, OutLen, BoundsAssumption DEF WriteOutput, TypeOK
    <3> QED
      BY <2>1, <3>1 DEF TypeOK
  <2>4. OutInv' /\ WaitInv'
    BY <2>1, <2>2 DEF OutInv, WaitInv, Documents
  <2>5. ParserInv' /\ OutputIsWhole'
    BY <2>1 DEF ParserInv, OutputIsWhole, Taken, Returned, Documents
  <2> QED
    BY <2>3, <2>4, <2>5
<1>13. CASE Exit
  <2>1. UNCHANGED <<app, config, main, encoder, starter, killer, ctxDone, exit, out, stderr,
                    written, read, closed, parseErr, execErr, objs, result, faults>>
    BY <1>13 DEF Exit, input, pipe, outcome
  <2>2. child = "prints" /\ child' = "exited" /\ written = 2 * Len(out)
    BY <1>13 DEF Exit
  <2>3. TypeOK'
    BY <2>1, <2>2 DEF TypeOK
  <2>4. OutInv' /\ WaitInv'
    BY <2>1, <2>2 DEF OutInv, WaitInv, Documents
  <2>5. ParserInv' /\ OutputIsWhole'
    BY <2>1, <2>2 DEF ParserInv, OutputIsWhole, Taken, Returned, Documents
  <2> QED
    BY <2>3, <2>4, <2>5
<1>14. CASE Crash
  <2>1. UNCHANGED <<app, config, main, encoder, starter, killer, ctxDone, out, written, read,
                    closed, parseErr, execErr, objs, result>>
    BY <1>14 DEF Crash, input, pipe, outcome
  <2>2. /\ child \in {"reads", "prints", "stuck"} /\ child' = "exited" /\ exit' = 1
        /\ faults' \in Nat
    BY <1>14 DEF Crash, Alive, SpendFault, TypeOK
  <2>3. TypeOK'
    <3>1. stderr' \in BOOLEAN
      BY <1>14, Zenon DEF Crash, TypeOK
    <3> QED
      BY <2>1, <2>2, <3>1 DEF TypeOK
  <2>4. OutInv' /\ WaitInv'
    BY <2>1, <2>2 DEF OutInv, WaitInv, Documents
  <2>5. ParserInv' /\ OutputIsWhole'
    BY <2>1, <2>2 DEF ParserInv, OutputIsWhole, Taken, Returned, Documents
  <2> QED
    BY <2>3, <2>4, <2>5
<1>15. CASE Hang
  <2>1. UNCHANGED <<app, config, main, encoder, starter, killer, ctxDone, exit, out, stderr,
                    written, read, closed, parseErr, execErr, objs, result>>
    BY <1>15 DEF Hang, input, pipe, outcome
  <2>2. child \in {"reads", "prints"} /\ child' = "stuck" /\ faults' \in Nat
    BY <1>15 DEF Hang, SpendFault, TypeOK
  <2>3. TypeOK'
    BY <2>1, <2>2 DEF TypeOK
  <2>4. OutInv' /\ WaitInv'
    BY <2>1, <2>2 DEF OutInv, WaitInv, Documents
  <2>5. ParserInv' /\ OutputIsWhole'
    BY <2>1, <2>2 DEF ParserInv, OutputIsWhole, Taken, Returned, Documents
  <2> QED
    BY <2>3, <2>4, <2>5
<1>16. CASE Timeout \/ UNCHANGED vars
  <2>1. UNCHANGED <<app, config, main, encoder, starter, killer, child, exit, out, stderr,
                    written, read, closed, parseErr, execErr, objs, result, faults>>
    BY <1>16 DEF Timeout, vars, input, process, pipe, outcome
  <2>2. ctxDone' \in BOOLEAN
    BY <1>16 DEF Timeout, vars, TypeOK
  <2>3. TypeOK'
    BY <2>1, <2>2 DEF TypeOK
  <2>4. OutInv' /\ WaitInv'
    BY <2>1 DEF OutInv, WaitInv, Documents
  <2>5. ParserInv' /\ OutputIsWhole'
    BY <2>1 DEF ParserInv, OutputIsWhole, Taken, Returned, Documents
  <2> QED
    BY <2>3, <2>4, <2>5
<1> QED
  BY <1>1, <1>2, <1>3, <1>4, <1>5, <1>6, <1>7, <1>8, <1>9, <1>10, <1>11, <1>12, <1>13,
     <1>14, <1>15, <1>16 DEF Next

\* Child, Wait and parser agree on what was printed.
THEOREM InvariantHolds == Spec => []IInv
<1>1. Init => IInv
  BY InitInv
<1>2. IInv /\ [Next]_vars => IInv'
  BY StepInv
<1> QED
  BY <1>1, <1>2, PTL DEF Spec

\* Every variable stays in its type, and what is printed in those of k8s.ts.
THEOREM TypeCorrect == Spec => []TypeOK
BY InvariantHolds, PTL DEF IInv

\* Generate returns an error or all objects of the chart and nothing else.
THEOREM WholeOutput == Spec => []OutputIsWhole
BY InvariantHolds, PTL DEF IInv

-----------------------------------------------------------------------------
(* What the objects say                                                    *)

\* A result is a Deployment, a Service and an Ingress.
LEMMA ResultShape ==
  ASSUME TypeOK, OutputIsWhole, Returned, result # Failed
  PROVE  /\ app \in Application /\ config \in Config /\ ~Oauth2Injection(app)
         /\ result[2] = <<Decoded(MainDeployment(app)), Decoded(MainService(app)),
                          Decoded(TheIngress(app, config))>>
<1>1. app \in Application /\ config \in Optional(Config)
  BY GeneratorAssumption DEF TypeOK
<1>2. /\ ~Oauth2Injection(app) /\ config # Undefined
      /\ Documents = <<MainDeployment(app), MainService(app), TheIngress(app, config)>>
  BY MainShape DEF OutputIsWhole, Documents
<1>3. result[2] = [i \in DOMAIN Documents |-> Decoded(Documents[i])]
  BY DEF OutputIsWhole, Ok
<1>4. result[2] = <<Decoded(MainDeployment(app)), Decoded(MainService(app)),
                    Decoded(TheIngress(app, config))>>
  BY <1>2, <1>3
<1> QED
  BY <1>1, <1>2, <1>4 DEF Optional

\* Every domain leads to the image, when the API server takes the objects.
THEOREM ServedDomains == Spec => []DomainsAreServed
<1>1. TypeOK /\ OutputIsWhole => DomainsAreServed
  <2> DEFINE image ==
        IF app.spec.image = Undefined THEN "modokipaas/no-app" ELSE app.spec.image
  <2> SUFFICES ASSUME TypeOK, OutputIsWhole, Returned, result # Failed, Accepted(result[2]),
                      NEW n \in DOMAIN app.spec.domains
               PROVE  Reaches(result[2], app.spec.domains[n], image)
    BY DEF DomainsAreServed
  <2> DEFINE host == app.spec.domains[n]
      d == Decoded(MainDeployment(app))
      s == Decoded(MainService(app))
      i == Decoded(TheIngress(app, config))
      rule == i.spec.rules[n]
      container == d.spec.template.spec.containers[1]
  <2>1. result[2] = <<d, s, i>> /\ app \in Application
    BY ResultShape
  <2>2. d.kind = "Deployment" /\ s.kind = "Service" /\ i.kind = "Ingress"
    BY DeploymentRead, ServiceRead, IngressRead
  <2>3. IsApiObject(d) /\ IsApiObject(s) /\ IsApiObject(i)
    <3> HIDE DEF d, s, i
    <3> QED
      BY <2>1 DEF Accepted
  <2>4. /\ d.metadata.namespace = app.metadata.namespace
        /\ s.metadata.namespace = app.metadata.namespace
        /\ s.metadata.name = NameOf[app.metadata.name]["service"]
        /\ i.metadata.namespace = app.metadata.namespace
        /\ DecodedTexts(Labels(app)) = Labels(app)
    <3>1. d.metadata = DecodedMetadata(Metadata(app, "main-deployment", Annotations(app)))
      BY DeploymentRead
    <3>2. s.metadata = DecodedMetadata(Metadata(app, "service", Annotations(app)))
      BY ServiceRead
    <3>3. i.metadata = DecodedMetadata(Metadata(app, "ingress",
                         Spread(Annotations(app), ConfigFor(app, config).ingressAnnotations)))
      BY IngressRead
    <3> HIDE DEF d, s, i
    <3> QED
      BY <2>1, <2>3, <3>1, <3>2, <3>3, AcceptedMetadata
  <2>5. /\ d.spec.selector.matchLabels = Labels(app)
        /\ d.spec.template.metadata.labels = Labels(app)
        /\ s.spec.selector = Labels(app)
    BY <2>4, DeploymentRead, ServiceRead
  <2>6. /\ n \in DOMAIN i.spec.rules /\ rule.host = host
        /\ rule.http.paths[1].path = "/"
        /\ rule.http.paths[1].backend.serviceName = NameOf[app.metadata.name]["service"]
        /\ rule.http.paths[1].backend.servicePort = Port
    <3> DEFINE was == TheIngress(app, config).spec.rules[n]
    <3>1. /\ n \in DOMAIN i.spec.rules
          /\ rule.host = DecodedText(host) /\ rule.http = was.http
      BY IngressRead
    <3>2. /\ was.http.paths[1].path = "/"
          /\ was.http.paths[1].backend.serviceName = NameOf[app.metadata.name]["service"]
          /\ was.http.paths[1].backend.servicePort = Port
      BY DEF TheIngress, IngressTo, Ingress
    <3>3. rule.host \in Text
      <4> HIDE DEF i
      <4> QED
        BY <2>2, <2>3, <3>1, AcceptedIngress
    <3> HIDE DEF was, rule, host
    <3> QED
      BY <3>1, <3>2, <3>3, TextRead
  <2>7. s.spec.ports[1].port = Port /\ s.spec.ports[1].targetPort = Port
    <3>1. s.spec.ports = MainService(app).spec.ports
      BY ServiceRead
    <3> QED
      BY <3>1 DEF MainService, Service
  <2>8. container.image = image /\ container.ports[1].containerPort = Port
    <3>1. /\ container = DecodedContainer(MainContainer(app))
          /\ 1 \in DOMAIN d.spec.template.spec.containers
      BY DeploymentRead
    <3>2. container.image \in Text
      <4> HIDE DEF d
      <4> QED
        BY <2>2, <2>3, <3>1, AcceptedDeployment DEF container
    <3>3. /\ DecodedContainer(MainContainer(app)).image = DecodedText(image)
          /\ DecodedContainer(MainContainer(app)).ports[1].containerPort = Port
      BY DEF DecodedContainer, MainContainer
    <3> HIDE DEF container, image
    <3> QED
      BY <3>1, <3>2, <3>3, TextRead
  <2>9. /\ 1 \in DOMAIN i.spec.tls /\ n \in DOMAIN i.spec.tls[1].hosts
        /\ i.spec.tls[1].hosts[n] = host
    <3>1. 1 \in DOMAIN i.spec.tls /\ i.spec.tls[1].hosts = DecodedTexts(app.spec.domains)
      BY IngressRead
    <3>2. i.spec.tls[1].hosts \in Seq(Text)
      <4> HIDE DEF i
      <4> QED
        BY <2>2, <2>3, <3>1, AcceptedIngress
    <3>3. CASE app.spec.domains = Undefined
      BY <3>1, <3>3 DEF DecodedTexts
    <3>4. CASE app.spec.domains # Undefined
      <4>1. n \in DOMAIN i.spec.tls[1].hosts /\ i.spec.tls[1].hosts[n] = DecodedText(host)
        BY <3>1, <3>4 DEF DecodedTexts, Each
      <4>2. i.spec.tls[1].hosts[n] \in Text
        BY <3>2, <4>1
      <4> HIDE DEF i
      <4> QED
        BY <3>1, <4>1, <4>2, TextRead
    <3> QED
      BY <3>3, <3>4
  <2>10. /\ Selects(d.spec.selector.matchLabels, d.spec.template.metadata.labels)
         /\ Selects(s.spec.selector, d.spec.template.metadata.labels)
    BY <2>5 DEF Selects
  <2> HIDE DEF host, d, s, i, rule, image, container
  <2>11. Reaches(<<d, s, i>>, host, image)
    <3> DEFINE documents == <<d, s, i>>
    <3>1. documents[1] = d /\ documents[2] = s /\ documents[3] = i
          /\ {1, 2, 3} \subseteq DOMAIN documents
      OBVIOUS
    <3> HIDE DEF documents
    <3>2. rule = i.spec.rules[n] /\ container = d.spec.template.spec.containers[1]
      BY DEF rule, container
    <3>3. Reaches(documents, host, image)
      BY <3>1, <3>2, <2>2, <2>4, <2>6, <2>7, <2>8, <2>9, <2>10 DEF Reaches
    <3> QED
      BY <3>3 DEF documents
  <2> QED
    BY <2>1, <2>11 DEF host, image
<1> QED
  BY <1>1, TypeCorrect, WholeOutput, PTL

\* Kind, name and selector of the document that is read at place n.
LEMMA DocumentRead ==
  ASSUME NEW a \in Application, NEW c, NEW n \in 1..3, NEW object,
         object = <<Decoded(MainDeployment(a)), Decoded(MainService(a)),
                    Decoded(TheIngress(a, c))>>[n]
  PROVE  LET id == <<"main-deployment", "service", "ingress">>
             kind == <<"Deployment", "Service", "Ingress">>
         IN  /\ object.kind = kind[n]
             /\ object.metadata.name = NameOf[a.metadata.name][id[n]]
             /\ object.metadata.namespace = DecodedText(a.metadata.namespace)
             /\ object.kind # "Ingress" => Selector(object) = DecodedTexts(Labels(a))
             /\ object.kind = "Deployment" => Pods(object) = DecodedTexts(Labels(a))
             /\ IsApiObject(object) =>
                  /\ object.metadata.namespace = a.metadata.namespace
                  /\ DecodedTexts(Labels(a)) = Labels(a)
<1>1. CASE n = 1
  <2>1. object = Decoded(MainDeployment(a))
    BY <1>1
  <2> QED
    BY <1>1, <2>1, DeploymentRead, MetadataRead, AcceptedMetadata DEF Selector, Pods
<1>2. CASE n = 2
  <2>1. object = Decoded(MainService(a))
    BY <1>2
  <2> QED
    BY <1>2, <2>1, ServiceRead, MetadataRead, AcceptedMetadata DEF Selector
<1>3. CASE n = 3
  <2>1. object = Decoded(TheIngress(a, c))
    BY <1>3
  <2> QED
    BY <1>3, <2>1, IngressRead, MetadataRead, AcceptedMetadata
<1> QED
  BY <1>1, <1>2, <1>3

\* Applications have neither objects nor pods in common.
THEOREM IsolatedApps == Spec => []AppsAreIsolated
<1>1. TypeOK /\ OutputIsWhole => AppsAreIsolated
  <2> SUFFICES ASSUME TypeOK, OutputIsWhole, Returned, result # Failed,
                      NEW other \in Apps, NEW rawConfig \in Configs,
                      other.metadata # app.metadata,
                      NEW m \in DOMAIN result[2], NEW t \in DOMAIN Main(other, rawConfig),
                      Accepted(<<result[2][m], Decoded(Main(other, rawConfig)[t])>>)
               PROVE  LET mine == result[2][m]
                          their == Decoded(Main(other, rawConfig)[t])
                      IN  /\ Identity(mine) # Identity(their)
                          /\ (/\ mine.kind \in {"Service", "Deployment"}
                              /\ their.kind = "Deployment"
                              /\ mine.metadata.namespace = their.metadata.namespace)
                               => ~Selects(Selector(mine), Pods(their))
    BY DEF AppsAreIsolated
  <2> DEFINE id == <<"main-deployment", "service", "ingress">>
      kind == <<"Deployment", "Service", "Ingress">>
      mine == result[2][m]
      their == Decoded(Main(other, rawConfig)[t])
  <2>1. app \in Application /\ other \in Application
    BY GeneratorAssumption DEF TypeOK
  <2>2. IsApiObject(mine) /\ IsApiObject(their)
    <3> HIDE DEF mine, their
    <3>1. Accepted(<<mine, their>>)
      BY DEF mine, their
    <3> QED
      BY <3>1 DEF Accepted
  <2>3. /\ m \in 1..3 /\ mine.kind = kind[m]
        /\ mine.metadata.namespace = app.metadata.namespace
        /\ mine.metadata.name = NameOf[app.metadata.name][id[m]]
        /\ mine.kind \in {"Service", "Deployment"} => Selector(mine) = Labels(app)
    <3>1. result[2] = <<Decoded(MainDeployment(app)), Decoded(MainService(app)),
                        Decoded(TheIngress(app, config))>>
      BY ResultShape
    <3>2. m \in 1..3
      BY <3>1
    <3> QED
      BY <2>1, <2>2, <3>1, <3>2, DocumentRead
  <2>4. /\ t \in 1..3 /\ their.kind = kind[t]
        /\ their.metadata.namespace = other.metadata.namespace
        /\ their.metadata.name = NameOf[other.metadata.name][id[t]]
        /\ their.kind = "Deployment" => Pods(their) = Labels(other)
    <3>1. Main(other, rawConfig) =
            <<MainDeployment(other), MainService(other), TheIngress(other, rawConfig)>>
      BY MainShape
    <3>2. t \in 1..3
      BY <3>1
    <3>3. their = <<Decoded(MainDeployment(other)), Decoded(MainService(other)),
                    Decoded(TheIngress(other, rawConfig))>>[t]
      BY <3>1, <3>2
    <3> QED
      BY <2>1, <2>2, <3>2, <3>3, DocumentRead
  <2> HIDE DEF mine, their
  <2>5. Identity(mine) # Identity(their)
    <3> SUFFICES ASSUME Identity(mine) = Identity(their) PROVE FALSE
      OBVIOUS
    <3>1. /\ mine.kind = their.kind /\ mine.metadata.namespace = their.metadata.namespace
          /\ mine.metadata.name = their.metadata.name
      BY DEF Identity
    <3>2. m = t /\ id[m] \in ChildId
      BY <2>3, <2>4, <3>1 DEF ChildId
    <3> HIDE DEF id
    <3> QED
      BY <2>1, <2>3, <2>4, <3>1, <3>2, NamesDiffer
  <2>6. (/\ mine.kind \in {"Service", "Deployment"} /\ their.kind = "Deployment"
         /\ mine.metadata.namespace = their.metadata.namespace)
          => ~Selects(Selector(mine), Pods(their))
    BY <2>1, <2>3, <2>4, NamesDiffer
  <2> QED
    BY <2>5, <2>6 DEF mine, their
<1> QED
  BY <1>1, TypeCorrect, WholeOutput, PTL

\* An edit leaves names and selectors alone.
THEOREM PatchableEdits == Spec => []EditsPatchInPlace
<1>1. TypeOK /\ OutputIsWhole => EditsPatchInPlace
  <2> SUFFICES ASSUME TypeOK, OutputIsWhole, Returned, result # Failed,
                      NEW edited \in Apps, NEW rawConfig \in Configs,
                      edited.metadata = app.metadata, Main(edited, rawConfig) # <<>>
               PROVE  LET after == Main(edited, rawConfig) IN
                      /\ DOMAIN after = DOMAIN result[2]
                      /\ \A i \in DOMAIN after :
                           /\ Identity(Decoded(after[i])) = Identity(result[2][i])
                           /\ after[i].kind # "Ingress" =>
                                Selector(Decoded(after[i])) = Selector(result[2][i])
    BY DEF EditsPatchInPlace
  <2> DEFINE after == Main(edited, rawConfig)
      before == result[2]
  <2>1. app \in Application /\ edited \in Application
    BY GeneratorAssumption DEF TypeOK
  <2>2. after = <<MainDeployment(edited), MainService(edited), TheIngress(edited, rawConfig)>>
    BY MainShape
  <2>3. before = <<Decoded(MainDeployment(app)), Decoded(MainService(app)),
                   Decoded(TheIngress(app, config))>>
    BY ResultShape
  <2>4. Labels(edited) = Labels(app)
    BY DEF Labels
  <2>5. DOMAIN after = 1..3 /\ DOMAIN before = 1..3
    BY <2>2, <2>3
  <2>6. ASSUME NEW n \in 1..3
        PROVE  /\ Identity(Decoded(after[n])) = Identity(before[n])
               /\ after[n].kind # "Ingress" =>
                    Selector(Decoded(after[n])) = Selector(before[n])
    <3>1. Decoded(after[n]) = <<Decoded(MainDeployment(edited)), Decoded(MainService(edited)),
                                Decoded(TheIngress(edited, rawConfig))>>[n]
      BY <2>2
    <3>2. Decoded(after[n]).kind = before[n].kind
      BY <2>1, <2>3, <3>1, DocumentRead
    <3>3. /\ Decoded(after[n]).metadata.name = before[n].metadata.name
          /\ Decoded(after[n]).metadata.namespace = before[n].metadata.namespace
      BY <2>1, <2>3, <3>1, DocumentRead
    <3>4. before[n].kind # "Ingress" => Selector(Decoded(after[n])) = Selector(before[n])
      BY <2>1, <2>3, <2>4, <3>1, <3>2, DocumentRead
    <3>5. after[n].kind # "Ingress" => before[n].kind # "Ingress"
      <4>1. TheIngress(edited, rawConfig).kind = "Ingress"
        BY DEF TheIngress, IngressTo, Ingress
      <4>2. n = 3 => after[n].kind = "Ingress"
        BY <2>2, <4>1
      <4>3. n # 3 => before[n].kind # "Ingress"
        BY <2>1, <2>3, DocumentRead
      <4> QED
        BY <4>2, <4>3
    <3> QED
      BY <3>2, <3>3, <3>4, <3>5 DEF Identity
  <2> HIDE DEF after, before
  <2> QED
    BY <2>5, <2>6 DEF after, before
<1> QED
  BY <1>1, TypeCorrect, WholeOutput, PTL

\* The operator can write down what it applied, unless the configuration has
\* an annotation that is misread.
THEOREM WritableAnnotations == Spec => []AnnotationsTakeLastApplied
<1>1. TypeOK /\ OutputIsWhole => AnnotationsTakeLastApplied
  <2> DEFINE given == config.ingressAnnotations
      d == Decoded(MainDeployment(app))
      s == Decoded(MainService(app))
      i == Decoded(TheIngress(app, config))
      readable == given = Undefined \/ \A k \in Key : given[k] \notin Misread
  <2> SUFFICES ASSUME TypeOK, OutputIsWhole, Returned, result # Failed
               PROVE  (\A n \in DOMAIN result[2] :
                         result[2][n].metadata.annotations \in StringMap) <=> readable
    BY DEF AnnotationsTakeLastApplied
  <2>1. /\ app \in Application /\ config \in Config /\ ~Oauth2Injection(app)
        /\ result[2] = <<d, s, i>>
    BY ResultShape
  <2>2. /\ d.metadata.annotations = DecodedTexts(Annotations(app))
        /\ s.metadata.annotations = DecodedTexts(Annotations(app))
        /\ i.metadata.annotations =
             DecodedTexts(Spread(Annotations(app), ConfigFor(app, config).ingressAnnotations))
    BY DeploymentRead, ServiceRead, IngressRead, MetadataRead
  <2>3. /\ d.metadata.annotations \in StringMap /\ s.metadata.annotations \in StringMap
        /\ i.metadata.annotations \in StringMap <=> readable
    BY <2>1, <2>2, AnnotationsRead
  <2> HIDE DEF d, s, i, readable
  <2> QED
    BY <2>1, <2>3
<1> QED
  BY <1>1, TypeCorrect, WholeOutput, PTL
=============================================================================
