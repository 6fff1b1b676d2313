\* Two runs that may overlap; two sound images and one that is not.
CONSTANTS
    Images = {v1, v2, v3}
    Sound = {v1, v2}
    Scripts = {timer, manual}
    None = None
SPECIFICATION Spec
INVARIANTS RestingImageIsTried
PROPERTIES UpdatedIsHealthy
