----------------------------- MODULE ChartProofs -----------------------------
(***************************************************************************)
(* What the chart makes of every Application and every configuration:      *)
(* objects of the types of k8s.ts, that hang together, and that neither    *)
(* share a name nor a pod with those of another Application.               *)
(***************************************************************************)
EXTENDS AppChart, TLAPS

\* The texts that the chart writes are texts, and its keys are keys.
LEMMA ChartTexts ==
  /\ ChartText \subseteq Text
  /\ AppName \subseteq Text
  /\ ChartKey \subseteq Key
  /\ PortText \in Text
  /\ Undefined \notin Text
  /\ AppTag \in [AppName -> Text \ Misread]
BY ChartAssumption

LEMMA EntryType ==
  ASSUME NEW key \in Key, NEW value \in Text
  PROVE  Entry(key, value) \in StringMap
BY DEF Entry, StringMap, Optional

LEMMA SpreadType ==
  ASSUME NEW f \in StringMap, NEW g \in StringMap
  PROVE  Spread(f, g) \in StringMap
BY DEF Spread, StringMap, Optional

LEMMA AppFields ==
  ASSUME NEW app \in Application
  PROVE  /\ app.metadata.name \in AppName
         /\ app.metadata.namespace \in Namespace
         /\ app.spec \in ApplicationSpec
BY DEF Application

LEMMA LabelsType ==
  ASSUME NEW app \in Application
  PROVE  /\ Labels(app) \in StringMap
         /\ Annotations(app) \in StringMap
<1>1. app.metadata.name \in Text /\ AppTag[app.metadata.name] \in Text
  BY AppFields, ChartTexts
<1>2. "modoki-app" \in Key /\ "modoki.tsuzu.dev" \in Key
  BY ChartTexts DEF ChartKey
<1> QED
  BY <1>1, <1>2, EntryType DEF Labels, Annotations

LEMMA MetadataType ==
  ASSUME NEW app \in Application, NEW id \in ChildId, NEW annotations \in StringMap
  PROVE  Metadata(app, id, annotations) \in ObjectMeta
<1>1. NameOf[app.metadata.name][id] \in ObjectName
  BY AppFields, ChartAssumption
<1> QED
  BY <1>1, AppFields, LabelsType DEF Metadata, ObjectMeta, Optional

LEMMA ContainerType ==
  ASSUME NEW app \in Application
  PROVE  MainContainer(app) \in Container
<1>1. "modokipaas/no-app" \in Text /\ "main" \in Text /\ "PORT" \in Text
  BY ChartTexts DEF ChartText
<1>2. app.spec.image \in Optional(Text)
  BY AppFields DEF ApplicationSpec
<1>3. /\ app.spec.command \in Optional(Seq(Text))
      /\ app.spec.args \in Optional(Seq(Text))
  BY AppFields DEF ApplicationSpec
<1>4. <<[containerPort |-> Port]>> \in Seq(ContainerPort)
  BY DEF Port, ContainerPort
<1>5. <<[name |-> "PORT", value |-> PortText]>> \in Seq(EnvVar)
  BY <1>1, ChartTexts DEF Port, EnvVar
<1>6. (IF app.spec.image = Undefined THEN "modokipaas/no-app" ELSE app.spec.image) \in Text
  BY <1>1, <1>2 DEF Optional
<1> QED
  BY <1>1, <1>3, <1>4, <1>5, <1>6 DEF MainContainer, Container

LEMMA PullSecretsType ==
  ASSUME NEW app \in Application
  PROVE  PullSecrets(app) \in Optional(Seq(LocalObjectReference))
<1>1. app.spec.imagePullSecret \in Optional(Text)
  BY AppFields DEF ApplicationSpec
<1> QED
  BY <1>1 DEF PullSecrets, LocalObjectReference, Optional

LEMMA DeploymentType ==
  ASSUME NEW app \in Application
  PROVE  IsApiObject(MainDeployment(app))
<1> DEFINE podMetadata ==
      [name |-> Undefined, namespace |-> Undefined, labels |-> Labels(app),
       annotations |-> Undefined]
    podSpec ==
      [serviceAccount |-> app.spec.serviceAccount,
       serviceAccountName |-> app.spec.serviceAccount,
       imagePullSecrets |-> PullSecrets(app),
       automountServiceAccountToken |-> FALSE,
       containers |-> <<MainContainer(app)>>]
    template == [metadata |-> podMetadata, spec |-> podSpec]
    spec == [replicas |-> 1, selector |-> [matchLabels |-> Labels(app)],
             template |-> template]
    metadata == Metadata(app, "main-deployment", Annotations(app))
    options == [metadata |-> metadata, spec |-> spec]
<1>1. podMetadata \in ObjectMeta
  BY LabelsType DEF ObjectMeta, Optional
<1>2. podSpec \in PodSpec
  <2>1. app.spec.serviceAccount \in Optional(Text)
    BY AppFields DEF ApplicationSpec
  <2>2. <<MainContainer(app)>> \in Seq(Container)
    BY ContainerType
  <2> QED
    BY <2>1, <2>2, PullSecretsType DEF PodSpec
<1>3. template \in PodTemplateSpec
  BY <1>1, <1>2 DEF PodTemplateSpec
<1>4. [matchLabels |-> Labels(app)] \in LabelSelector
  BY LabelsType DEF LabelSelector
<1>5. spec \in DeploymentSpec
  BY <1>3, <1>4 DEF DeploymentSpec
<1>6. metadata \in ObjectMeta
  BY MetadataType, LabelsType DEF ChildId
<1>7. options \in DeploymentOptions
  BY <1>5, <1>6 DEF DeploymentOptions
<1>8. MainDeployment(app) = Deployment(options)
  BY DEF MainDeployment
<1> QED
  BY <1>7, <1>8 DEF IsApiObject, Deployment

LEMMA ServiceType ==
  ASSUME NEW app \in Application
  PROVE  IsApiObject(MainService(app))
<1> DEFINE port == [name |-> "http", port |-> Port, targetPort |-> Port, protocol |-> "TCP"]
    spec == [ports |-> <<port>>, selector |-> Labels(app), type |-> "ClusterIP",
             externalName |-> Undefined]
    metadata == Metadata(app, "service", Annotations(app))
    options == [metadata |-> metadata, spec |-> spec]
<1>1. {"http", "TCP", "ClusterIP"} \subseteq Text
  BY ChartTexts DEF ChartText
<1>2. <<port>> \in Seq(ServicePort)
  BY <1>1 DEF Port, ServicePort, IntOrString
<1>3. spec \in ServiceSpec
  BY <1>1, <1>2, LabelsType DEF ServiceSpec, Optional
<1>4. metadata \in ObjectMeta
  BY MetadataType, LabelsType DEF ChildId
<1>5. options \in ServiceOptions
  BY <1>3, <1>4 DEF ServiceOptions
<1>6. MainService(app) = Service(options)
  BY DEF MainService
<1> QED
  BY <1>5, <1>6 DEF IsApiObject, Service

\* The ingress class of the default, or what the configuration says.
LEMMA IngressAnnotationsType ==
  ASSUME NEW app \in Application, NEW rawConfig \in Config, ~Oauth2Injection(app)
  PROVE  ConfigFor(app, rawConfig).ingressAnnotations \in StringMap
<1>1. Entry(IngressClass, "nginx") \in StringMap
  BY EntryType, ChartTexts DEF ChartKey, ChartText
<1>2. rawConfig.ingressAnnotations \in Optional(StringMap)
  BY DEF Config
<1>3. ConfigFor(app, rawConfig) = Spread(DefaultConfig, rawConfig)
  BY DEF ConfigFor
<1>4. Spread(DefaultConfig, rawConfig).ingressAnnotations =
        IF rawConfig.ingressAnnotations # Undefined
        THEN rawConfig.ingressAnnotations ELSE Entry(IngressClass, "nginx")
  BY DEF Spread, DefaultConfig
<1> QED
  BY <1>1, <1>2, <1>3, <1>4 DEF Optional

LEMMA IngressType ==
  ASSUME NEW app \in Application, NEW rawConfig \in Config, ~Oauth2Injection(app),
         NEW service \in ObjectName, NEW servicePort \in Nat, NEW path \in Text
  PROVE  IsApiObject(IngressTo(app, ConfigFor(app, rawConfig), service, servicePort, path))
<1> DEFINE backend == [serviceName |-> service, servicePort |-> servicePort]
    rule(host) == [host |-> host, http |-> [paths |-> <<[backend |-> backend,
                                                         path |-> path]>>]]
    rules == [i \in DOMAIN app.spec.domains |-> rule(app.spec.domains[i])]
    spec == [rules |-> rules, tls |-> <<[hosts |-> app.spec.domains]>>]
    config == ConfigFor(app, rawConfig)
    metadata == Metadata(app, "ingress", Spread(Annotations(app), config.ingressAnnotations))
    options == [metadata |-> metadata, spec |-> spec]
<1>1. app.spec.domains \in Seq(Text)
  BY AppFields DEF ApplicationSpec
<1>2. ASSUME NEW host \in Text PROVE rule(host) \in IngressRule
  <2>1. <<[backend |-> backend, path |-> path]>> \in Seq(HttpIngressPath)
    BY DEF HttpIngressPath, IngressBackend, IntOrString
  <2> QED
    BY <2>1 DEF IngressRule, HttpIngressRuleValue
<1>3. rules \in Seq(IngressRule)
  <2> HIDE DEF rule
  <2> QED
    BY <1>1, <1>2
<1>4. <<[hosts |-> app.spec.domains]>> \in Seq(IngressTls)
  BY <1>1 DEF IngressTls
<1>5. spec \in IngressSpec
  BY <1>3, <1>4 DEF IngressSpec
<1>6. metadata \in ObjectMeta
  <2>1. Spread(Annotations(app), config.ingressAnnotations) \in StringMap
    BY SpreadType, LabelsType, IngressAnnotationsType
  <2> QED
    BY <2>1, MetadataType DEF ChildId
<1>7. options \in IngressOptions
  BY <1>5, <1>6 DEF IngressOptions
<1>8. IngressTo(app, config, service, servicePort, path) = Ingress(options)
  BY DEF IngressTo
<1> QED
  BY <1>7, <1>8 DEF IsApiObject, Ingress

-----------------------------------------------------------------------------
\* The Ingress of an Application without the OAuth2 attribute.
TheIngress(app, rawConfig) ==
  IngressTo(app, ConfigFor(app, rawConfig), NameOf[app.metadata.name]["service"], Port, "/")

\* main.ts prints nothing, or a Deployment, a Service and an Ingress.
LEMMA MainShape ==
  ASSUME NEW app, NEW rawConfig
  PROVE  \/ Main(app, rawConfig) = <<>>
         \/ /\ ~Oauth2Injection(app) /\ rawConfig # Undefined
            /\ Main(app, rawConfig) =
                 <<MainDeployment(app), MainService(app), TheIngress(app, rawConfig)>>
<1> DEFINE child(id, object) == [id |-> id, object |-> object]
    d == child("main-deployment", MainDeployment(app))
    s == child("service", MainService(app))
    i == child("ingress", TheIngress(app, rawConfig))
    children == MyChart(app, rawConfig)
<1>1. CASE Oauth2Injection(app)
  <2> DEFINE config == ConfigFor(app, rawConfig)
      o == child("oauth2-service", Oauth2Service(app, config))
      j == child("ingress",
                 IngressTo(app, config, NameOf[app.metadata.name]["oauth2-service"],
                           4180, "/oauth2"))
  <2>1. children = <<d, s, i>> \o <<o, j>>
    BY <1>1 DEF MyChart, TheIngress
  <2>2. 3 \in DOMAIN children /\ 5 \in DOMAIN children /\ children[3] = i /\ children[5] = j
    <3> HIDE DEF d, s, i, o, j
    <3> QED
      BY <2>1
  <2>3. Throws(children)
    BY <2>2 DEF Throws
  <2> QED
    BY <2>3 DEF Main
<1>2. CASE ~Oauth2Injection(app)
  <2>1. children = <<d, s, i>>
    BY <1>2 DEF MyChart, TheIngress
  <2>2. ~Throws(children)
    BY <2>1 DEF Throws
  <2>3. CASE rawConfig # Undefined
    <3>1. Main(app, rawConfig) = [n \in DOMAIN children |-> children[n].object]
      BY <2>2, <2>3 DEF Main
    <3>2. @ = <<d.object, s.object, i.object>>
      BY <2>1
    <3> QED
      BY <1>2, <2>3, <3>1, <3>2
  <2> QED
    BY <2>3 DEF Main
<1> QED
  BY <1>1, <1>2

\* Every document has the type of its class.
LEMMA MainType ==
  ASSUME NEW app \in Application, NEW rawConfig \in Optional(Config),
         NEW n \in DOMAIN Main(app, rawConfig)
  PROVE  IsApiObject(Main(app, rawConfig)[n])
<1> SUFFICES ASSUME Main(app, rawConfig) # <<>>
             PROVE  IsApiObject(Main(app, rawConfig)[n])
  OBVIOUS
<1>1. /\ ~Oauth2Injection(app)
      /\ Main(app, rawConfig) =
           <<MainDeployment(app), MainService(app), TheIngress(app, rawConfig)>>
      /\ rawConfig \in Config
  BY MainShape DEF Optional
<1>2. IsApiObject(TheIngress(app, rawConfig))
  <2>1. NameOf[app.metadata.name]["service"] \in ObjectName
    BY AppFields, ChartAssumption DEF ChildId
  <2>2. "/" \in Text
    BY ChartTexts DEF ChartText
  <2> QED
    BY <1>1, <2>1, <2>2, IngressType DEF TheIngress, Port
<1> QED
  BY <1>1, <1>2, DeploymentType, ServiceType

-----------------------------------------------------------------------------
(* What the operator reads                                                 *)

\* What the API server takes was not misread.
LEMMA TextRead ==
  ASSUME NEW text, DecodedText(text) \in Text \union Namespace \union {Undefined}
  PROVE  DecodedText(text) = text
BY ChartAssumption DEF DecodedText

\* A map of texts is one after reading, too, unless a value is misread; then
\* it is the same map.
LEMMA MapRead ==
  ASSUME NEW map \in StringMap
  PROVE  /\ DecodedTexts(map) \in StringMap <=> \A k \in Key : map[k] \notin Misread
         /\ DecodedTexts(map) \in StringMap => DecodedTexts(map) = map
<1>1. map # Undefined /\ DOMAIN map = Key
  BY ChartAssumption DEF StringMap
<1>2. DecodedTexts(map) = [k \in Key |-> DecodedText(map[k])]
  BY <1>1 DEF DecodedTexts, Each
<1>3. ASSUME DecodedTexts(map) \in StringMap
      PROVE  DecodedTexts(map) = map /\ \A k \in Key : map[k] \notin Misread
  <2>1. ASSUME NEW k \in Key PROVE DecodedText(map[k]) = map[k] /\ map[k] \notin Misread
    <3>1. DecodedText(map[k]) \in Text \union {Undefined}
      BY <1>2, <1>3 DEF StringMap, Optional
    <3>2. DecodedText(map[k]) # NotText
      BY <3>1, ChartAssumption
    <3> QED
      BY <3>1, <3>2, TextRead DEF DecodedText
  <2> QED
    BY <1>2, <2>1 DEF StringMap
<1>4. ASSUME \A k \in Key : map[k] \notin Misread
      PROVE  DecodedTexts(map) \in StringMap
  BY <1>2, <1>4 DEF DecodedText, StringMap
<1> QED
  BY <1>3, <1>4

LEMMA MetadataRead ==
  ASSUME NEW app, NEW id, NEW annotations
  PROVE  LET metadata == DecodedMetadata(Metadata(app, id, annotations))
         IN  /\ metadata.name = NameOf[app.metadata.name][id]
             /\ metadata.namespace = DecodedText(app.metadata.namespace)
             /\ metadata.labels = DecodedTexts(Labels(app))
             /\ metadata.annotations = DecodedTexts(annotations)
BY DEF DecodedMetadata, Metadata

\* Kind, namespace, name and annotations of each document as it is read, and
\* the labels it goes by.
LEMMA DeploymentRead ==
  ASSUME NEW app, NEW d, d = Decoded(MainDeployment(app))
  PROVE  /\ d.kind = "Deployment"
         /\ d.metadata = DecodedMetadata(Metadata(app, "main-deployment", Annotations(app)))
         /\ d.spec.selector.matchLabels = DecodedTexts(Labels(app))
         /\ d.spec.template.metadata.labels = DecodedTexts(Labels(app))
         /\ d.spec.template.spec.containers[1] = DecodedContainer(MainContainer(app))
         /\ 1 \in DOMAIN d.spec.template.spec.containers
<1> DEFINE was == MainDeployment(app)
    template == was.spec.template
<1>1. /\ was.kind = "Deployment"
      /\ was.metadata = Metadata(app, "main-deployment", Annotations(app))
      /\ was.spec.selector.matchLabels = Labels(app)
      /\ template.metadata.labels = Labels(app)
      /\ template.spec.containers = <<MainContainer(app)>>
  BY DEF MainDeployment, Deployment
<1>2. /\ DOMAIN was = {"kind", "metadata", "spec"}
      /\ DOMAIN was.spec = {"replicas", "selector", "template"}
      /\ DOMAIN template.metadata = {"name", "namespace", "labels", "annotations"}
      /\ "containers" \in DOMAIN template.spec
  BY DEF MainDeployment, Deployment
<1>3. /\ d.kind = "Deployment" /\ d.metadata = DecodedMetadata(was.metadata)
      /\ d.spec = DecodedDeploymentSpec(was.spec)
  <2>1. d = Decoded(was)
    OBVIOUS
  <2> HIDE DEF was
  <2> QED
    BY <1>1, <1>2, <2>1 DEF Decoded
<1>4. /\ d.spec.selector.matchLabels = DecodedTexts(Labels(app))
      /\ d.spec.template.metadata = DecodedMetadata(template.metadata)
      /\ d.spec.template.spec = DecodedPodSpec(template.spec)
  <2> HIDE DEF was
  <2> QED
    BY <1>1, <1>2, <1>3 DEF DecodedDeploymentSpec
<1>5. DecodedMetadata(template.metadata).labels = DecodedTexts(Labels(app))
  <2> HIDE DEF template
  <2> QED
    BY <1>1, <1>2 DEF DecodedMetadata
<1>6. DecodedPodSpec(template.spec).containers =
        Each(DecodedContainer, template.spec.containers)
  <2> HIDE DEF template
  <2> QED
    BY <1>2 DEF DecodedPodSpec
<1>7. Each(DecodedContainer, <<MainContainer(app)>>) = <<DecodedContainer(MainContainer(app))>>
  BY DEF Each
<1> HIDE DEF was, template
<1>8. d.spec.template.spec.containers = <<DecodedContainer(MainContainer(app))>>
  BY <1>1, <1>4, <1>6, <1>7
<1>9. d.spec.template.metadata.labels = DecodedTexts(Labels(app))
  BY <1>4, <1>5
<1> QED
  BY <1>1, <1>3, <1>4, <1>8, <1>9

LEMMA ServiceRead ==
  ASSUME NEW app, NEW s, s = Decoded(MainService(app))
  PROVE  /\ s.kind = "Service"
         /\ s.metadata = DecodedMetadata(Metadata(app, "service", Annotations(app)))
         /\ s.spec.selector = DecodedTexts(Labels(app))
         /\ s.spec.ports = MainService(app).spec.ports
<1> DEFINE was == MainService(app)
<1>1. /\ was.kind = "Service" /\ was.spec.selector = Labels(app)
      /\ was.metadata = Metadata(app, "service", Annotations(app))
  BY DEF MainService, Service
<1>2. /\ DOMAIN was = {"kind", "metadata", "spec"}
      /\ DOMAIN was.spec = {"ports", "selector", "type", "externalName"}
  BY DEF MainService, Service
<1>3. /\ s.kind = "Service" /\ s.metadata = DecodedMetadata(was.metadata)
      /\ s.spec = DecodedServiceSpec(was.spec)
  <2> HIDE DEF was
  <2> QED
    BY <1>1, <1>2 DEF Decoded, was
<1> HIDE DEF was
<1> QED
  BY <1>1, <1>2, <1>3 DEF DecodedServiceSpec, was

LEMMA IngressRead ==
  ASSUME NEW app, NEW rawConfig, NEW i, i = Decoded(TheIngress(app, rawConfig))
  PROVE  /\ i.kind = "Ingress"
         /\ i.metadata =
              DecodedMetadata(Metadata(app, "ingress",
                Spread(Annotations(app), ConfigFor(app, rawConfig).ingressAnnotations)))
         /\ DOMAIN i.spec.rules = DOMAIN app.spec.domains
         /\ \A n \in DOMAIN app.spec.domains :
              /\ i.spec.rules[n].host = DecodedText(app.spec.domains[n])
              /\ i.spec.rules[n].http = TheIngress(app, rawConfig).spec.rules[n].http
         /\ 1 \in DOMAIN i.spec.tls
         /\ i.spec.tls[1].hosts = DecodedTexts(app.spec.domains)
<1> DEFINE was == TheIngress(app, rawConfig)
<1>1. /\ was.kind = "Ingress"
      /\ was.metadata = Metadata(app, "ingress",
           Spread(Annotations(app), ConfigFor(app, rawConfig).ingressAnnotations))
      /\ DOMAIN was.spec.rules = DOMAIN app.spec.domains
      /\ was.spec.tls = <<[hosts |-> app.spec.domains]>>
  BY DEF TheIngress, IngressTo, Ingress
<1>2. DOMAIN was = {"kind", "metadata", "spec"} /\ DOMAIN was.spec = {"rules", "tls"}
  BY DEF TheIngress, IngressTo, Ingress
<1> HIDE DEF was
<1>3. /\ i.kind = "Ingress" /\ i.metadata = DecodedMetadata(was.metadata)
      /\ i.spec = DecodedIngressSpec(was.spec)
  BY <1>1, <1>2 DEF Decoded, was
<1>4. /\ i.spec.rules = [n \in DOMAIN was.spec.rules |->
                           [was.spec.rules[n] EXCEPT !.host = DecodedText(@)]]
      /\ i.spec.tls = [n \in DOMAIN was.spec.tls |->
                         [hosts |-> DecodedTexts(was.spec.tls[n].hosts)]]
  BY <1>2, <1>3 DEF DecodedIngressSpec, Each
<1>5. i.spec.tls = <<[hosts |-> DecodedTexts(app.spec.domains)]>>
  BY <1>1, <1>4
<1>6. ASSUME NEW n \in DOMAIN app.spec.domains
      PROVE  /\ i.spec.rules[n].host = DecodedText(app.spec.domains[n])
             /\ i.spec.rules[n].http = was.spec.rules[n].http
  <2> DEFINE rule == was.spec.rules[n]
  <2>1. DOMAIN rule = {"host", "http"} /\ rule.host = app.spec.domains[n]
    BY DEF TheIngress, IngressTo, Ingress, was
  <2>2. i.spec.rules[n] = [rule EXCEPT !.host = DecodedText(@)]
    BY <1>1, <1>4
  <2> HIDE DEF rule
  <2>3. /\ i.spec.rules[n].host = DecodedText(app.spec.domains[n])
        /\ i.spec.rules[n].http = rule.http
    BY <2>1, <2>2
  <2> QED
    BY <2>3 DEF rule
<1>7. DOMAIN i.spec.rules = DOMAIN app.spec.domains
  BY <1>1, <1>4
<1>8. 1 \in DOMAIN i.spec.tls /\ i.spec.tls[1].hosts = DecodedTexts(app.spec.domains)
  BY <1>5
<1>9. i.metadata = DecodedMetadata(Metadata(app, "ingress",
                     Spread(Annotations(app), ConfigFor(app, rawConfig).ingressAnnotations)))
  BY <1>1, <1>3
<1> QED
  BY <1>3, <1>6, <1>7, <1>8, <1>9 DEF was

\* What the API server takes has the name, namespace and labels that the
\* chart gave it.
LEMMA AcceptedMetadata ==
  ASSUME NEW app \in Application, NEW id, NEW annotations, NEW object, IsApiObject(object),
         object.metadata = DecodedMetadata(Metadata(app, id, annotations))
  PROVE  /\ object.metadata.name = NameOf[app.metadata.name][id]
         /\ object.metadata.namespace = app.metadata.namespace
         /\ DecodedTexts(Labels(app)) = Labels(app)
<1>1. object.metadata \in ObjectMeta
  BY DEF IsApiObject, DeploymentOptions, ServiceOptions, IngressOptions
<1>2. /\ object.metadata.namespace \in Namespace \union {Undefined}
      /\ object.metadata.labels \in StringMap
  BY <1>1 DEF ObjectMeta, Optional
<1> QED
  BY <1>2, MetadataRead, TextRead, MapRead, LabelsType

LEMMA AcceptedDeployment ==
  ASSUME NEW d, d.kind = "Deployment", IsApiObject(d),
         NEW c \in DOMAIN d.spec.template.spec.containers
  PROVE  d.spec.template.spec.containers[c].image \in Text
<1>1. d.spec \in DeploymentSpec
  BY DEF IsApiObject, Deployment, Service, Ingress, DeploymentOptions
<1>2. d.spec.template.spec.containers \in Seq(Container)
  BY <1>1 DEF DeploymentSpec, PodTemplateSpec, PodSpec
<1>3. d.spec.template.spec.containers[c] \in Container
  BY <1>2
<1> QED
  BY <1>3 DEF Container

LEMMA AcceptedIngress ==
  ASSUME NEW i, i.kind = "Ingress", IsApiObject(i)
  PROVE  /\ \A r \in DOMAIN i.spec.rules : i.spec.rules[r].host \in Text
         /\ \A t \in DOMAIN i.spec.tls : i.spec.tls[t].hosts \in Seq(Text)
<1>1. i.spec \in IngressSpec
  BY DEF IsApiObject, Deployment, Service, Ingress, IngressOptions
<1>2. i.spec.rules \in Seq(IngressRule) /\ i.spec.tls \in Seq(IngressTls)
  BY <1>1 DEF IngressSpec
<1>3. \A r \in DOMAIN i.spec.rules : i.spec.rules[r] \in IngressRule
  BY <1>2
<1>4. \A t \in DOMAIN i.spec.tls : i.spec.tls[t] \in IngressTls
  BY <1>2
<1> QED
  BY <1>3, <1>4 DEF IngressRule, IngressTls

\* The annotations of the configuration are among those of the Ingress, and
\* none of the chart's own is misread.
LEMMA AnnotationsRead ==
  ASSUME NEW app \in Application, NEW rawConfig \in Config, ~Oauth2Injection(app)
  PROVE  LET own == DecodedTexts(Annotations(app))
             given == rawConfig.ingressAnnotations
             ingress == DecodedTexts(Spread(Annotations(app),
                                            ConfigFor(app, rawConfig).ingressAnnotations))
         IN  /\ own \in StringMap
             /\ ingress \in StringMap <=>
                  (given = Undefined \/ \A k \in Key : given[k] \notin Misread)
<1> DEFINE given == rawConfig.ingressAnnotations
    all == ConfigFor(app, rawConfig).ingressAnnotations
    default == Entry(IngressClass, "nginx")
<1>1. \A k \in Key : Annotations(app)[k] \notin Misread
  <2>1. AppTag[app.metadata.name] \notin Misread /\ Undefined \notin Misread
    BY AppFields, ChartAssumption
  <2> QED
    BY <2>1 DEF Annotations, Entry
<1>2. DecodedTexts(Annotations(app)) \in StringMap
  BY <1>1, MapRead, LabelsType
<1>3. all = IF given # Undefined THEN given ELSE default
  <2>1. ConfigFor(app, rawConfig) = Spread(DefaultConfig, rawConfig)
    BY DEF ConfigFor
  <2> QED
    BY <2>1 DEF Spread, DefaultConfig
<1>4. \A k \in Key : default[k] \notin Misread
  <2>1. "nginx" \notin Misread /\ Undefined \notin Misread
    BY ChartAssumption DEF ChartText
  <2> QED
    BY <2>1 DEF Entry
<1>5. all \in StringMap
  BY IngressAnnotationsType
<1>6. (\A k \in Key : Spread(Annotations(app), all)[k] \notin Misread)
        <=> \A k \in Key : all[k] \notin Misread
  <2> HIDE DEF all
  <2>1. \A k \in Key : Spread(Annotations(app), all)[k] =
                         IF all[k] # Undefined THEN all[k] ELSE Annotations(app)[k]
    BY LabelsType DEF Spread, StringMap
  <2>2. Undefined \notin Misread
    BY ChartAssumption
  <2> QED
    BY <1>1, <2>1, <2>2
<1>7. Spread(Annotations(app), all) \in StringMap
  BY <1>5, SpreadType, LabelsType
<1> HIDE DEF given, all, default
<1>8. DecodedTexts(Spread(Annotations(app), all)) \in StringMap
        <=> (given = Undefined \/ \A k \in Key : given[k] \notin Misread)
  BY <1>3, <1>4, <1>6, <1>7, MapRead
<1> QED
  BY <1>2, <1>8 DEF given, all

\* Names and labels tell Applications apart.
LEMMA NamesDiffer ==
  ASSUME NEW a \in Application, NEW b \in Application, a.metadata # b.metadata,
         a.metadata.namespace = b.metadata.namespace
  PROVE  /\ \A id \in ChildId : NameOf[a.metadata.name][id] # NameOf[b.metadata.name][id]
         /\ ~Selects(Labels(a), Labels(b))
<1>1. a.metadata.name # b.metadata.name
  BY DEF Application
<1>2. ASSUME NEW id \in ChildId
      PROVE  NameOf[a.metadata.name][id] # NameOf[b.metadata.name][id]
  BY <1>1, AppFields, ChartAssumption
<1>3. ~Selects(Labels(a), Labels(b))
  <2>1. "modoki-app" \in Key /\ a.metadata.name # Undefined
    BY AppFields, ChartTexts DEF ChartKey
  <2>2. /\ Labels(a)["modoki-app"] = a.metadata.name
        /\ Labels(b)["modoki-app"] = b.metadata.name
    BY <2>1 DEF Labels, Entry
  <2> QED
    BY <1>1, <2>1, <2>2 DEF Selects
<1> QED
  BY <1>2, <1>3
=============================================================================
