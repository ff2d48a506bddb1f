------------------------------ MODULE AppChart -------------------------------
(***************************************************************************)
(* The cdk8s program that turns an Application into Kubernetes objects     *)
(* (cdk8s-template): the constructor of MyChart (charts/chart.ts), the     *)
(* construct tree of cdk8s it builds, and main.ts, which prints it.        *)
(***************************************************************************)
EXTENDS KubernetesObjects

LOCAL INSTANCE TLC \* ToString

CONSTANTS
  AppName,           \* names of Applications
  NameOf,            \* NameOf[a][id]: cdk8s' name for child id of chart modoki-a
  AppTag,            \* AppTag[a]: the text `modoki-${a}-app`
  Attribute,         \* attributes that the chart does not know
  Misread,           \* texts such as "on", "yes" and "1_000": not quoted in YAML
                     \* 1.2, but a boolean or a number in YAML 1.1
  NotText            \* such a boolean or number

\* Texts and keys that chart.ts writes down.
ChartText ==
  {"modokipaas/no-app", "modoki-operator-system", "oauth2-proxy", "ingress-secret",
   "svc.cluster.local", "nginx", "https://$host/oauth2/auth",
   "https://$host/oauth2/start?rd=$escaped_request_uri", "main", "PORT", "http", "TCP",
   "ClusterIP", "ExternalName", "/", "/oauth2"}

IngressClass == "kubernetes.io/ingress.class"
AuthURL == "nginx.ingress.kubernetes.io/auth-url"
AuthSignIn == "nginx.ingress.kubernetes.io/auth-signin"
ChartKey == {"modoki-app", "modoki.tsuzu.dev", IngressClass, AuthURL, AuthSignIn}

Port == 8080
PortText == ToString(Port)

ChildId == {"main-deployment", "service", "ingress", "oauth2-service"}

\* cdk8s appends a hash of the path, so that names do not collide.  Any text
\* of a user may be misread, the name of an Application included.
ASSUME ChartAssumption ==
  /\ ChartText \union AppName \subseteq Text
  /\ ChartKey \subseteq Key
  /\ PortText \in Text
  /\ NameOf \in [AppName -> [ChildId -> ObjectName]]
  /\ \A a, b \in AppName : \A i, j \in ChildId :
       NameOf[a][i] = NameOf[b][j] => a = b /\ i = j
  /\ AppTag \in [AppName -> Text \ Misread]
  /\ Misread \intersect (ChartText \union {PortText}) = {}
  /\ Undefined \notin Text \union Misread \union StringMap
  /\ NotText \notin Text \union Namespace \union {Undefined}

-----------------------------------------------------------------------------
(* Input: application.ts and the configuration file                        *)

\* Go's omitempty leaves empty fields out.
ApplicationSpec ==
  [domains : Seq(Text), image : Optional(Text),
   command : Optional(Seq(Text)), args : Optional(Seq(Text)),
   attributes : [Attribute \union {"modoki.tsuzu.dev/oauth2"} -> Optional(Text)],
   serviceAccount : Optional(Text), imagePullSecret : Optional(Text)]

\* The status is in the input, too, but the chart never looks at it.
Application ==
  [metadata : [name : AppName, namespace : Namespace], spec : ApplicationSpec]

\* { ...f, ...g }
Spread(f, g) == [k \in DOMAIN f |-> IF g[k] # Undefined THEN g[k] ELSE f[k]]

DefaultConfig ==
  [ingressNamespace |-> "modoki-operator-system",
   oauth2ServiceName |-> "oauth2-proxy",
   oauth2ServiceNamespace |-> "modoki-operator-system",
   tlsSecretName |-> "ingress-secret",
   serviceDomain |-> "svc.cluster.local",
   ingressAnnotations |-> Entry(IngressClass, "nginx")]

\* Partial<Config>
Config ==
  [ingressNamespace : Optional(Text), oauth2ServiceName : Optional(Text),
   oauth2ServiceNamespace : Optional(Text), tlsSecretName : Optional(Text),
   serviceDomain : Optional(Text), ingressAnnotations : Optional(StringMap)]

-----------------------------------------------------------------------------
(* The constructor of MyChart                                              *)

Oauth2Injection(app) == app.spec.attributes["modoki.tsuzu.dev/oauth2"] = "default"

\* The annotations are added to the object of the configuration itself.
ConfigFor(app, rawConfig) ==
  LET config == Spread(DefaultConfig, rawConfig)
  IN  IF Oauth2Injection(app)
      THEN [config EXCEPT
              !.ingressAnnotations[AuthURL] = "https://$host/oauth2/auth",
              !.ingressAnnotations[AuthSignIn] =
                "https://$host/oauth2/start?rd=$escaped_request_uri"]
      ELSE config

\* Mutant: a label that every Application has.
LabelsShared(app) == Entry("modoki-app", "main")

\* Mutant: the label follows the image.
LabelsOfImage(app) ==
  Entry("modoki-app", IF app.spec.image = Undefined THEN "modokipaas/no-app" ELSE app.spec.image)

Labels(app) == Entry("modoki-app", app.metadata.name)

\* Mutant: the annotation is the bare name.
AnnotationsBare(app) == Entry("modoki.tsuzu.dev", app.metadata.name)

Annotations(app) == Entry("modoki.tsuzu.dev", AppTag[app.metadata.name])

Metadata(app, id, annotations) ==
  [name |-> NameOf[app.metadata.name][id], namespace |-> app.metadata.namespace,
   labels |-> Labels(app), annotations |-> annotations]

MainContainer(app) ==
  [name |-> "main",
   image |-> IF app.spec.image = Undefined THEN "modokipaas/no-app" ELSE app.spec.image,
   command |-> app.spec.command,
   args |-> app.spec.args,
   ports |-> <<[containerPort |-> Port]>>,
   env |-> <<[name |-> "PORT", value |-> PortText]>>]

\* Mutant: the reference is there without a secret, too.
PullSecretsAlways(app) == <<[name |-> app.spec.imagePullSecret]>>

PullSecrets(app) ==
  LET secret == app.spec.imagePullSecret
  IN  IF secret = Undefined THEN Undefined ELSE <<[name |-> secret]>>

MainDeployment(app) ==
  Deployment(
    [metadata |-> Metadata(app, "main-deployment", Annotations(app)),
     spec |->
       [replicas |-> 1,
        selector |-> [matchLabels |-> Labels(app)],
        template |->
          [metadata |-> [name |-> Undefined, namespace |-> Undefined,
                         labels |-> Labels(app), annotations |-> Undefined],
           spec |-> [serviceAccount |-> app.spec.serviceAccount,
                     serviceAccountName |-> app.spec.serviceAccount,
                     imagePullSecrets |-> PullSecrets(app),
                     automountServiceAccountToken |-> FALSE,
                     containers |-> <<MainContainer(app)>>]]]])

\* Mutant: the port of the Service is the one of HTTP.
MainServiceAt80(app) ==
  Service(
    [metadata |-> Metadata(app, "service", Annotations(app)),
     spec |-> [ports |-> <<[name |-> "http", port |-> 80, targetPort |-> Port,
                            protocol |-> "TCP"]>>,
               selector |-> Labels(app),
               type |-> "ClusterIP",
               externalName |-> Undefined]])

MainService(app) ==
  Service(
    [metadata |-> Metadata(app, "service", Annotations(app)),
     spec |-> [ports |-> <<[name |-> "http", port |-> Port, targetPort |-> Port,
                            protocol |-> "TCP"]>>,
               selector |-> Labels(app),
               type |-> "ClusterIP",
               externalName |-> Undefined]])

\* An Ingress that sends path of every domain to a port of a Service.
IngressTo(app, config, service, servicePort, path) ==
  LET backend == [serviceName |-> service, servicePort |-> servicePort]
      rule(host) == [host |-> host, http |-> [paths |-> <<[backend |-> backend,
                                                           path |-> path]>>]]
  IN
  Ingress(
    [metadata |-> Metadata(app, "ingress", Spread(Annotations(app), config.ingressAnnotations)),
     spec |-> [rules |-> [i \in DOMAIN app.spec.domains |-> rule(app.spec.domains[i])],
               tls |-> <<[hosts |-> app.spec.domains]>>]])

Oauth2Service(app, config) ==
  Service(
    [metadata |-> Metadata(app, "oauth2-service", Annotations(app)),
     spec |-> [ports |-> Undefined, selector |-> Undefined,
               type |-> "ExternalName",
               externalName |-> <<config.oauth2ServiceName, config.oauth2ServiceNamespace,
                                  config.serviceDomain>>]])

\* The children of the construct, in the order they are added.
MyChart(app, rawConfig) ==
  LET config == ConfigFor(app, rawConfig)
      child(id, object) == [id |-> id, object |-> object]
      nameOf(id) == NameOf[app.metadata.name][id]
      common ==
        <<child("main-deployment", MainDeployment(app)),
          child("service", MainService(app)),
          child("ingress", IngressTo(app, config, nameOf("service"), Port, "/"))>>
      oauth2 ==
        <<child("oauth2-service", Oauth2Service(app, config)),
          child("ingress",
                IngressTo(app, config, nameOf("oauth2-service"), 4180, "/oauth2"))>>
  IN  IF Oauth2Injection(app) THEN common \o oauth2 ELSE common

\* The construct tree throws at a second child of the same id.
Throws(children) ==
  \E i, j \in DOMAIN children : i # j /\ children[i].id = children[j].id

-----------------------------------------------------------------------------
(* main.ts                                                                 *)

\* The documents on standard output.  When the configuration cannot be read
\* (Undefined) or the constructor throws, the rejected promise leaves
\* nothing there, only a warning on standard error.
Main(app, rawConfig) ==
  IF rawConfig = Undefined \/ Throws(MyChart(app, rawConfig))
  THEN <<>>
  ELSE LET children == MyChart(app, rawConfig)
       IN  [i \in DOMAIN children |-> children[i].object]

-----------------------------------------------------------------------------
(* What the operator reads                                                 *)

\* yaml.stringify writes YAML 1.2, the operator's decoder reads YAML 1.1.
DecodedText(text) == IF text \in Misread THEN NotText ELSE text

\* Op of every value of a list or map.
Each(Op(_), values) == [i \in DOMAIN values |-> Op(values[i])]

DecodedTexts(texts) == IF texts = Undefined THEN Undefined ELSE Each(DecodedText, texts)

\* The name of an object is never misread.
DecodedMetadata(metadata) ==
  [metadata EXCEPT !.namespace = DecodedText(@), !.labels = DecodedTexts(@),
                   !.annotations = DecodedTexts(@)]

DecodedContainer(container) ==
  [container EXCEPT !.image = DecodedText(@), !.command = DecodedTexts(@),
                    !.args = DecodedTexts(@)]

DecodedPodSpec(spec) ==
  LET decoded(secret) == [name |-> DecodedText(secret.name)]
  IN  [spec EXCEPT !.serviceAccount = DecodedText(@), !.serviceAccountName = DecodedText(@),
                   !.imagePullSecrets = IF @ = Undefined THEN @ ELSE Each(decoded, @),
                   !.containers = Each(DecodedContainer, @)]

DecodedDeploymentSpec(spec) ==
  [spec EXCEPT !.selector = [matchLabels |-> DecodedTexts(@.matchLabels)],
               !.template = [metadata |-> DecodedMetadata(@.metadata),
                             spec |-> DecodedPodSpec(@.spec)]]

DecodedServiceSpec(spec) == [spec EXCEPT !.selector = DecodedTexts(@)]

DecodedIngressSpec(spec) ==
  LET decodedRule(rule) == [rule EXCEPT !.host = DecodedText(@)]
      decodedTls(tls) == [hosts |-> DecodedTexts(tls.hosts)]
  IN  [spec EXCEPT !.rules = Each(decodedRule, @), !.tls = Each(decodedTls, @)]

\* What the decoder makes of a document of the chart: every text that a user
\* may choose is read, wherever it is.
Decoded(object) ==
  [object EXCEPT
     !.metadata = DecodedMetadata(@),
     !.spec = CASE object.kind = "Deployment" -> DecodedDeploymentSpec(@)
                [] object.kind = "Service" -> DecodedServiceSpec(@)
                [] object.kind = "Ingress" -> DecodedIngressSpec(@)]
=============================================================================
