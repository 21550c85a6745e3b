SPECIFICATION Spec
CONSTANTS
  None = None
  Root = "r"
  Kind <- LinkKind
  Children <- LinkChildren
  Links <- LinkLinks
  Sources <- LinkSources
  Target <- LinkTarget
  Conditional = {"l1", "l3", "l4"}
  Receives = {"a", "b", "e", "d", "u"}
  AllOf = {"f"}
  Throws = {"f"}
CHECK_DEADLOCK FALSE
INVARIANTS
  TypeOK
  LinksFollowDefinition
  OncePerFlow
  ControlDependencies
  CompletionIsFinal
PROPERTIES
  FlowCompletes
