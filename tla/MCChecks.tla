------------------------------ MODULE MCChecks ------------------------------
(* Every check of both suites but the cancellation probes, with and without *)
(* the capabilities it asks for.                                            *)
EXTENDS CheckRunner, WriteChecks, CopyRenameChecks, DirectoryDeleteChecks,
        QueryChecks, TempChecks

MCPayloads == {"payload", "sentinel"}
MCTemporaries ==
    {t[x] : t \in {F, D}, x \in {"named", "temp", "cleaned", "first", "second", "third", "source"}}
    \cup {D.replacement}
MCRoles ==
    {"target", "over", "source", "sourceChild", "targetChild"} \cup MCPayloads
    \cup {F[x] : x \in DOMAIN F \ {"payload"}} \cup {D[x] : x \in DOMAIN D \ {"payload"}}

MCChecks ==
    {Named(k, WriteProgram(k)) : k \in WriteKeys}
    \cup {Named(k, CopyRenameProgram(k)) : k \in CopyKeys \cup RenameKeys}
    \cup {Named(k, DirectoryProgram(k)) : k \in DirectoryKeys}
    \cup {Named(k, DeleteProgram(k)) : k \in DeleteKeys}
    \cup {Named(k, QueryProgram(k)) : k \in QueryKeys}
    \cup {Named(k, TempProgram(k)) : k \in TempKeys}

Catalog == INSTANCE CheckCatalog

MCOptional == Catalog!OptionalIds

MCOutline(c) ==
    LET Section[n \in DOMAIN c.sections] ==
           LET steps == c.sections[n]
               Outlined[i \in DOMAIN steps] ==
                  [r \in Roles |-> IF i > 1 THEN Left(Outlined[i - 1], steps[i - 1], r)
                                  ELSE IF n > 1 THEN Handed(c, Section, n - 1, r)
                                  ELSE "absent"]
           IN Outlined
    IN Section

\* A WriteLimit that passes has confirmed that the write over the limit was not
\* published (doc/file_system_testkit_design.md:109).
OverLimitNotPublished ==
    phase = "done" /\ check.id = "WriteLimit" /\ verdict = "Passed" =>
       world["over"] = "absent"
=============================================================================
