-------------------------- MODULE KubernetesObjects --------------------------
(***************************************************************************)
(* The Kubernetes types of cdk8s-template/imports/k8s.ts that the chart    *)
(* builds its objects from, each with the fields the chart sets.  A field  *)
(* that is left out has the value Undefined.                               *)
(***************************************************************************)
EXTENDS Naturals, Sequences

CONSTANTS
  Text,        \* strings that are values: images, hosts, label values, ...
  Key,         \* keys of labels and annotations
  ObjectName,  \* names of objects
  Namespace,   \* namespaces
  Undefined    \* a field that is not set

Optional(S) == S \union {Undefined}

\* { [key: string]: string }
StringMap == [Key -> Optional(Text)]
Entry(key, value) == [k \in Key |-> IF k = key THEN value ELSE Undefined]

ObjectMeta ==
  [name : Optional(ObjectName), namespace : Optional(Namespace),
   labels : StringMap, annotations : Optional(StringMap)]

-----------------------------------------------------------------------------
(* Workloads                                                               *)

LocalObjectReference == [name : Text]
ContainerPort == [containerPort : Nat]
EnvVar == [name : Text, value : Text]

Container ==
  [name : Text, image : Text, command : Optional(Seq(Text)), args : Optional(Seq(Text)),
   ports : Seq(ContainerPort), env : Seq(EnvVar)]

PodSpec ==
  [serviceAccount : Optional(Text), serviceAccountName : Optional(Text),
   imagePullSecrets : Optional(Seq(LocalObjectReference)),
   automountServiceAccountToken : BOOLEAN, containers : Seq(Container)]

PodTemplateSpec == [metadata : ObjectMeta, spec : PodSpec]
LabelSelector == [matchLabels : StringMap]
DeploymentSpec == [replicas : Nat, selector : LabelSelector, template : PodTemplateSpec]

\* The constructors give an object its kind; apiVersion goes with it.
DeploymentOptions == [metadata : ObjectMeta, spec : DeploymentSpec]
Deployment(options) ==
  [kind |-> "Deployment", metadata |-> options.metadata, spec |-> options.spec]

-----------------------------------------------------------------------------
(* Services                                                                *)

IntOrString == Nat
ServicePort == [name : Text, port : Nat, targetPort : IntOrString, protocol : Text]

ServiceSpec ==
  [ports : Optional(Seq(ServicePort)), selector : Optional(StringMap), type : Text,
   externalName : Optional(Seq(Text))]

ServiceOptions == [metadata : ObjectMeta, spec : ServiceSpec]
Service(options) ==
  [kind |-> "Service", metadata |-> options.metadata, spec |-> options.spec]

-----------------------------------------------------------------------------
(* Ingresses                                                               *)

IngressBackend == [serviceName : ObjectName, servicePort : IntOrString]
HttpIngressPath == [backend : IngressBackend, path : Text]
HttpIngressRuleValue == [paths : Seq(HttpIngressPath)]
IngressRule == [host : Text, http : HttpIngressRuleValue]
IngressTls == [hosts : Seq(Text)]
IngressSpec == [rules : Seq(IngressRule), tls : Seq(IngressTls)]

IngressOptions == [metadata : ObjectMeta, spec : IngressSpec]
Ingress(options) ==
  [kind |-> "Ingress", metadata |-> options.metadata, spec |-> options.spec]

-----------------------------------------------------------------------------
\* An object of one of the three classes, with options of its type.
IsApiObject(object) ==
  LET options == [metadata |-> object.metadata, spec |-> object.spec]
  IN  \/ object = Deployment(options) /\ options \in DeploymentOptions
      \/ object = Service(options) /\ options \in ServiceOptions
      \/ object = Ingress(options) /\ options \in IngressOptions

\* How the cluster reads labels: a selector selects the pods of its
\* namespace that carry all of its labels.
Selects(selector, labels) ==
  \A k \in Key : selector[k] # Undefined => labels[k] = selector[k]
=============================================================================
