------------------------------- MODULE MCParts -------------------------------
(* The small parts that share nothing, in one run: the stream pool, the disk  *)
(* limiter, the repositories, and the way from a machine to its spaces.  As   *)
(* no state of one is seen by another, a behaviour is one of a single part.   *)
EXTENDS StreamPool, DiskLimiter, DataRepository, MCDeployment

VARIABLE part   \* the part that a behaviour is of

\* The machine and the settings of behaviours that are not about them.
AnyMachine == CHOOSE m \in Machines : TRUE
AnySetup   == CHOOSE s \in Setups : TRUE

PartsInit ==
  /\ Init /\ LimiterInit /\ RepositoryInit
  /\ part \in {"streams", "disk", "repositories", "deployment"}
  /\ part # "deployment" => machine = AnyMachine /\ settings = AnySetup
  /\ DeploymentInit

PartsNext ==
  /\ UNCHANGED part
  /\ \/ /\ part = "streams" /\ Next
        /\ UNCHANGED <<limiterVars, repositoryVars, deploymentVars>>
     \/ /\ part = "disk" /\ LimiterNext
        /\ UNCHANGED <<vars, repositoryVars, deploymentVars>>
     \/ /\ part = "repositories" /\ RepositoryStep
        /\ UNCHANGED <<vars, limiterVars, deploymentVars>>
     \/ /\ part = "deployment" /\ DeploymentNext
        /\ UNCHANGED <<vars, limiterVars, repositoryVars>>
     \/ /\ part = "deployment" /\ stage = "down"   \* it may stop here, the others nowhere
        /\ UNCHANGED <<vars, limiterVars, repositoryVars, deploymentVars>>

Parts == PartsInit /\ [][PartsNext]_<<part, vars, limiterVars, repositoryVars, deploymentVars>>
=============================================================================
