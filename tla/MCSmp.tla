------------------------------- MODULE MCSmp -------------------------------
\* Small instances of Smp: processor 1 boots; 2 and 4 are enabled, 3 is
\* disabled, and 5 does not fit into the MaxCpus slots.
EXTENDS Smp

Entry(id, on) == [apicId |-> id, enabled |-> on]

MCMadts == {<< >>,
            <<Entry(2, TRUE), Entry(1, TRUE), Entry(3, FALSE), Entry(4, TRUE),
              Entry(5, TRUE)>>,
            <<Entry(1, TRUE), Entry(2, TRUE), Entry(4, TRUE), Entry(5, TRUE)>>}
=============================================================================
