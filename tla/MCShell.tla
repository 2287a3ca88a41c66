------------------------------- MODULE MCShell ------------------------------
\* A small installation. The one document names another directory, holds a word
\* this build does not know and decides everything else; a start with nothing set
\* ignores it in the old place, one with that directory moves it, and one whose
\* variables name the file and decide leaves it alone.
EXTENDS Shell

MCWords == {None, "home", "other", "bin/xray", "on", "off", "odd",
            "ask", "background", "exit", "a", "b", "e"}

Bare == [data_dir |-> None, config |-> FALSE,
         xray_executable |-> None, system_proxy |-> None]

MCDocuments ==
  {[data_dir |-> "other", xray_executable |-> "a", system_proxy |-> "on",
    status_page |-> "off", exit_mode |-> "odd"]}

MCEnvironments ==
  {Bare,
   [Bare EXCEPT !.data_dir = "other", !.system_proxy = "odd"],
   [Bare EXCEPT !.config = TRUE, !.xray_executable = "e", !.system_proxy = "on"]}
=============================================================================
