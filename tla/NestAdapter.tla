---------------------------- MODULE NestAdapter ----------------------------
(***************************************************************************)
(* What the NestJS runtime adapter generates for a component (adapter.ts   *)
(* and contract.ts of extensions/runtimes/nestjs).  Pure.                  *)
(*                                                                         *)
(* An artifact is [path, ownership, imports]: a path is the sequence of    *)
(* its segments, a context in a file name being one of its own; imports    *)
(* are the generated files its text needs, whether by import, by copy or   *)
(* by reading them.  The rest of a template is left out.  A contract is    *)
(* [context, refers]: its bounded context and whether an operation takes   *)
(* or returns a type of the contract.                                      *)
(***************************************************************************)
EXTENDS KernelValues

owned(path, imports) == [path |-> path, ownership |-> "COMPILER_OWNED", imports |-> imports]
seeded(path, imports) == [path |-> path, ownership |-> "OWNER_SEEDED", imports |-> imports]

-----------------------------------------------------------------------------
(* The files of one contract.                                              *)

contractFile(contract) == <<"contract", contract.context>>
domainFile(contract, name) == <<"src", "domain", contract.context, name>>
implementation(contract) == <<"src", "extension", contract.context, "handlers">>
shared(name) == <<"src", "contract", name>>
extensionModule == <<"src", "extension", "extension.module">>

(* Present when referencedTypes is not empty.                              *)
typeImports(contract) == {path \in {domainFile(contract, "types")} : contract.refers}

typesFile(contract) == owned(domainFile(contract, "types"), {})

handlersFile(contract) ==
  owned(domainFile(contract, "handlers"), {shared("domain-error")} \union typeImports(contract))

controllerFile(contract) ==
  owned(domainFile(contract, "controller"),
        {shared("validation"), domainFile(contract, "handlers")} \union typeImports(contract))

moduleFile(contract) ==
  owned(domainFile(contract, "module"),
        {extensionModule, implementation(contract), domainFile(contract, "controller"), domainFile(contract, "handlers")})

seededHandlers(contract) ==
  seeded(implementation(contract), {domainFile(contract, "handlers")} \union typeImports(contract))

contractsController(contracts) ==
  owned(shared("contracts.controller"),
        {shared("validation")} \union {contractFile(contract) : contract \in Range(contracts)})

DOMAIN_ERROR == owned(shared("domain-error"), {})
VALIDATION == owned(shared("validation"), {})
PROBLEM_FILTER == owned(shared("problem.filter"), {shared("domain-error")})

contractArtifacts(contracts) ==
  IF contracts = <<>> THEN <<>>
  ELSE <<DOMAIN_ERROR, VALIDATION, PROBLEM_FILTER, contractsController(contracts)>>
       \o FlattenSeq([i \in DOMAIN contracts |->
            LET contract == contracts[i]
            IN  <<owned(contractFile(contract), {}), typesFile(contract), handlersFile(contract),
                  controllerFile(contract), moduleFile(contract), seededHandlers(contract)>>])

-----------------------------------------------------------------------------
(* The project.                                                            *)

mainFile == <<"src", "main">>
appFile == <<"src", "app.module">>
healthFile == <<"src", "health", "health.controller">>

(* Faulty variant: the filter is imported whether or not it is generated.  *)
mainAlways(contracts) == owned(mainFile, {appFile, shared("problem.filter")})

main(contracts) == owned(mainFile, {appFile} \union {path \in {shared("problem.filter")} : contracts # <<>>})

appModule(contracts) ==
  owned(appFile, {extensionModule, healthFile}
                 \union {path \in {shared("contracts.controller")} : contracts # <<>>}
                 \union {domainFile(contract, "module") : contract \in Range(contracts)})

(* The image is built from the manifest of the package and the sources.    *)
dockerfile(contracts) ==
  owned(<<"Dockerfile">>, {<<"package.json">>, <<"tsconfig.json">>, mainFile}
                          \union {contractFile(contract) : contract \in Range(contracts)})

SUPPORTED_KINDS == {<<"api", "service">>}
validateIntent(component) == component.kind \in SUPPORTED_KINDS

(* plan, for the contracts that the component provides.                    *)
nestPlan(contracts) ==
  <<owned(<<"package.json">>, {}), owned(<<"tsconfig.json">>, {}), main(contracts), appModule(contracts),
    owned(healthFile, {}), seeded(extensionModule, {})>>
  \o contractArtifacts(contracts)
  \o <<owned(<<"scripts", "contract-check">>, {contractFile(contract) : contract \in Range(contracts)}),
       dockerfile(contracts), owned(<<".dockerignore">>, {}), owned(<<".gitignore">>, {}),
       owned(<<"README.md">>, {})>>

=============================================================================
