----------------------------- MODULE MCIdentity --------------------------------
(* A plain profile that cannot be started, and two that can, in which everything *)
(* the rules tell apart is given, blank or left out; an engine before, at and    *)
(* after the measured majors, with stale and missing evidence beside it.         *)
EXTENDS Identity

Plain == [base |-> "a", brand |-> "Chrome", brand_version |-> "none", version |-> "none",
          cpus |-> "none", strict |-> FALSE, exclusions |-> FALSE, proxy |-> FALSE,
          target |-> "blank"]
SomeProfiles ==
    {[Plain EXCEPT !.target = "odd"],
     [Plain EXCEPT !.base = "b", !.version = "x", !.brand_version = "x", !.cpus = "4",
                   !.proxy = TRUE],
     [Plain EXCEPT !.brand = "Opera", !.brand_version = "y", !.version = "blank",
                   !.exclusions = TRUE, !.strict = TRUE, !.target = "url"]}

Bare == [json |-> 0, file |-> 0, dirs |-> {}, banner |-> 0, actual |-> 143]
SomeLayouts ==
    {Bare,
     [Bare EXCEPT !.json = 144, !.dirs = {143}, !.actual = 144],
     [Bare EXCEPT !.dirs = {143, 149}, !.actual = 149],
     [Bare EXCEPT !.file = 143, !.banner = 144]}
=============================================================================
