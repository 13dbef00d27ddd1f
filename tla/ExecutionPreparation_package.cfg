\* Two preparations of a Study with two revisions and two specifications.
SPECIFICATION Spec
CONSTANTS
    Procs = {api, cli}
    NumRevisions = 2
    NumSpecs = 2
    MaxStops = 2

    
    
PROPERTIES
    PackageGetsPrepared
